---- MODULE Spec2Model ----
(***************************************************************************)
(* A model of the milestone payload (construction, DTO conversion, quorum  *)
(* validation) and of the receipt milestone option (funds verification)    *)
(* of sdk/src/types/block/payload/milestone, of the builder of the regular *)
(* transaction essence, of the account's lookups of unspent outputs and of *)
(* its prepared transactions: consolidation, voting, minting               *)
(* (sdk/src/wallet/account), and of the wallet's backup, restore and       *)
(* address generation with their locks (sdk/src/wallet/wallet).            *)
(*                                                                         *)
(* Byte arrays are scaled down: a 32-byte public key, a 32-byte identifier *)
(* and a 49-byte tail-transaction hash are one byte each; the array order  *)
(* (lexicographic on bytes) is then the order of the integers.             *)
(***************************************************************************)
EXTENDS Integers, Sequences, FiniteSets, TLC

VARIABLES
    essence,              \* the MilestoneEssence the caller holds
    signatures,           \* the Vec<Signature> the caller holds
    protocol_parameters,  \* the ProtocolParameters in force
    payload,              \* Option<MilestonePayload>: the last payload constructed
    dto,                  \* Option<MilestonePayloadDto>: the DTO in hand
    funds,                \* the Vec<MigratedFundsEntry> the caller holds
    transaction,          \* the Payload that goes with the funds
    receipt,              \* Option<ReceiptMilestoneOption>: the last receipt constructed
    wire,                 \* a length-prefixed sequence as it is encoded
    unpacker,             \* the position and the progress of its decoding
    builder,              \* the RegularTransactionEssenceBuilder the caller holds
    regular_essence,      \* Option<RegularTransactionEssence>: the last essence built
    unspent_outputs,      \* the account's unspent_outputs: HashMap<OutputId, OutputData>
    account_details,      \* the AccountDetails of the account that prepares transactions
    secret_manager,       \* the SecretManager of that account's wallet
    node,                 \* what the node answers: its time, the status of the events
    prepared_transaction, \* Option<PreparedTransactionData>: the last one prepared
    wallet,               \* the Wallet: accounts, coin type, secret manager, client options
    snapshot,             \* the backup at backup_path: the data read from the snapshot
    locks,                \* the RwLocks of the wallet: their holders and their queues
    tasks,                \* the concurrent calls on the wallet: the position of each
    last                  \* the last operation, its arguments and its result

vars == <<essence, signatures, protocol_parameters, payload, dto, funds, transaction,
          receipt, wire, unpacker, builder, regular_essence, unspent_outputs,
          account_details, secret_manager, node, prepared_transaction,
          wallet, snapshot, locks, tasks, last>>

milestone_vars == <<essence, signatures, payload, dto>>
receipt_vars == <<funds, transaction, receipt>>
unpack_vars == <<wire, unpacker>>
builder_vars == <<builder, regular_essence>>
account_vars == <<unspent_outputs>>
operation_vars == <<account_details, secret_manager, node, prepared_transaction>>
wallet_vars == <<wallet, snapshot, locks, tasks>>

----------------------------------------------------------------------------
(* Bounds of the model. *)

\* longest signature list drawn element by element
MaxSigs == 3
\* longest applicable-key list passed to validate
MaxApplicable == 3
\* largest min_threshold passed to validate
MaxThreshold == 3
\* longest funds list drawn element by element
MaxFunds == 3
\* longest input list of an essence drawn element by element
MaxInputs == 2
\* longest output list of an essence drawn element by element
MaxOutputs == 2
\* largest number of unspent outputs an account holds
MaxUnspent == 2

----------------------------------------------------------------------------
(* Option and Result. *)

None == <<>>
Some(x) == <<x>>
IsSome(o) == o # <<>>
Unwrap(o) == o[1]

Ok(v) == [ok |-> TRUE, value |-> v]
Err(e) == [ok |-> FALSE, error |-> e]

\* The elements of a sequence.
Range(s) == {s[i] : i \in 1..Len(s)}

\* All sequences over S of length at most n.
SeqsUpTo(S, n) == UNION {[1..k -> S] : k \in 0..n}

----------------------------------------------------------------------------
(* Hexadecimal strings: hex::encode and prefix_hex::encode / decode. *)

HexDigits == <<"0", "1", "2", "3", "4", "5", "6", "7", "8", "9", "a", "b", "c", "d", "e", "f">>

\* hex::encode of one byte: two lower-case digits, no prefix.
hex_encode_byte(b) == HexDigits[(b \div 16) + 1] \o HexDigits[(b % 16) + 1]

RECURSIVE hex_encode(_)
\* hex::encode of a byte sequence.
hex_encode(bytes) ==
    IF bytes = <<>> THEN ""
    ELSE hex_encode_byte(Head(bytes)) \o hex_encode(Tail(bytes))

\* prefix_hex::encode: "0x" followed by the hex digits.
prefix_hex_encode(bytes) == "0x" \o hex_encode(bytes)

\* The byte sequences a string of the model can denote: at most one byte.
ModelByteSeqs == SeqsUpTo(0..255, 1)

\* The "0x"-prefixed hex strings, each with the bytes it denotes.
PrefixHexTable ==
    LET strings == {prefix_hex_encode(bytes) : bytes \in ModelByteSeqs}
    IN  [s \in strings |-> CHOOSE bytes \in ModelByteSeqs : prefix_hex_encode(bytes) = s]

\* prefix_hex::decode: the byte sequence a "0x"-prefixed hex string denotes,
\* an error for any other string.
prefix_hex_decode(s) ==
    IF s \in DOMAIN PrefixHexTable
    THEN Ok(PrefixHexTable[s])
    ELSE Err([kind |-> "InvalidPrefixHex"])

\* FromStr of a fixed-size identifier (MilestoneId, BlockId, MerkleRoot, a
\* public key): the prefix-hex string of exactly its size, one byte here.
id_from_str(s) ==
    LET bytes == prefix_hex_decode(s)
    IN  IF bytes.ok /\ Len(bytes.value) = 1 THEN Ok(bytes.value[1])
        ELSE Err([kind |-> "InvalidHexLength"])

\* Display / to_string of a fixed-size identifier.
id_to_string(id) == prefix_hex_encode(<<id>>)

----------------------------------------------------------------------------
(* Ed25519, idealised: a signature verifies under a public key for a       *)
(* message exactly when it was made for that message with that key's       *)
(* secret.  Some 32-byte strings are not the encoding of a curve point:    *)
(* ed25519::PublicKey::try_from_bytes fails on them.                       *)

\* The public keys (one byte each) of the short signature lists.
PublicKeys == {1, 2, 3}

\* Whether the bytes decode to a public key.
IsEd25519Point(k) == k % 3 # 0

\* The 64 signature bytes made with the secret of key k over message m.
Ed25519Sign(k, m) == [by |-> k, over |-> m]

\* ed25519::PublicKey::verify.
Ed25519Verify(k, sig, m) == sig = Ed25519Sign(k, m)

\* Signature::Ed25519(Ed25519Signature { public_key, signature }).
Ed25519Signature(k, sig) == [public_key |-> k, signature |-> sig]

----------------------------------------------------------------------------
(* MilestoneEssence. *)

ProtocolVersions == {2, 3}
Metadatas == {<<>>, <<10>>}

\* MilestoneEssence::hash: collision-free.
EssenceHash(e) == [blake2b256 |-> e]

\* The essence with one byte of it changed.
TamperedEssence(e) == [e EXCEPT !.timestamp = e.timestamp + 1]

Essences ==
    [index : {7}, timestamp : {100}, protocol_version : ProtocolVersions,
     previous_milestone_id : {4}, parents : {<<5>>},
     inclusion_merkle_root : {6}, applied_merkle_root : {8},
     metadata : Metadatas, options : {<<>>}]

\* MilestoneEssence::new as called by the DTO conversions: the nine fields,
\* stored as given (the metadata within its length bound).
MilestoneEssence_new(index, timestamp, protocol_version, previous_milestone_id, parents, inclusion_merkle_root, applied_merkle_root, metadata, options) ==
    Ok([index |-> index, timestamp |-> timestamp,
        protocol_version |-> protocol_version,
        previous_milestone_id |-> previous_milestone_id, parents |-> parents,
        inclusion_merkle_root |-> inclusion_merkle_root,
        applied_merkle_root |-> applied_merkle_root,
        metadata |-> metadata, options |-> options])

----------------------------------------------------------------------------
(* MilestonePayload: construction. *)

SIGNATURE_COUNT_MIN == 1
SIGNATURE_COUNT_MAX == 255

\* A bounded count whose upper bound is exclusive.
SignatureCount_try_from_exclusive(n) ==
    IF n >= SIGNATURE_COUNT_MIN /\ n < SIGNATURE_COUNT_MAX
    THEN Ok(n)
    ELSE Err([kind |-> "MilestoneInvalidSignatureCount", count |-> n])

\* SignatureCount = BoundedU8<1, 255>: TryFrom<usize>.
SignatureCount_try_from(n) ==
    IF n >= SIGNATURE_COUNT_MIN /\ n <= SIGNATURE_COUNT_MAX
    THEN Ok(n)
    ELSE Err([kind |-> "MilestoneInvalidSignatureCount", count |-> n])

\* iterator_sorted::is_unique_sorted over byte arrays: strictly increasing.
is_unique_sorted(keys) ==
    \A i \in 1..(Len(keys) - 1) : keys[i] < keys[i + 1]

\* The public keys of a signature list, in order.
PublicKeysOf(sigs) == [i \in 1..Len(sigs) |-> sigs[i].public_key]

\* verify_signatures::<VERIFY>.
verify_signatures(VERIFY, sigs) ==
    IF VERIFY /\ ~is_unique_sorted(PublicKeysOf(sigs))
    THEN Err([kind |-> "MilestoneSignaturesNotUniqueSorted"])
    ELSE Ok(<<>>)

\* MilestonePayload::new.
MilestonePayload_new(e, sigs) ==
    LET count == SignatureCount_try_from(Len(sigs))
    IN  IF ~count.ok THEN count
        ELSE Ok([essence |-> e, signatures |-> sigs])

----------------------------------------------------------------------------
(* MilestonePayload::validate. *)

RECURSIVE validate_signatures(_, _, _, _)
\* The loop over the signatures, from 0-based position index on.
validate_signatures(sigs, essence_hash, applicable_public_keys, index) ==
    IF index >= Len(sigs) THEN Ok(<<>>)
    ELSE
        LET signature == sigs[index + 1]
        IN  IF hex_encode(<<signature.public_key>>) \notin Range(applicable_public_keys)
            THEN Err([kind |-> "UnapplicablePublicKey",
                      key |-> prefix_hex_encode(<<signature.public_key>>)])
            ELSE IF ~IsEd25519Point(signature.public_key)
            THEN Err([kind |-> "Crypto"])
            ELSE IF ~Ed25519Verify(signature.public_key, signature.signature, essence_hash)
            THEN Err([kind |-> "InvalidSignature", index |-> index,
                      key |-> prefix_hex_encode(<<signature.public_key>>)])
            ELSE validate_signatures(sigs, essence_hash, applicable_public_keys, index + 1)

\* A validation that stops after the first min_threshold signatures.
validate_threshold_only(self, applicable_public_keys, min_threshold) ==
    IF min_threshold = 0
    THEN Err([kind |-> "InvalidMinThreshold"])
    ELSE IF Len(applicable_public_keys) < min_threshold
    THEN Err([kind |-> "InsufficientApplicablePublicKeys",
              len |-> Len(applicable_public_keys), min |-> min_threshold])
    ELSE IF Len(self.signatures) < min_threshold
    THEN Err([kind |-> "TooFewSignatures",
              min |-> min_threshold, len |-> Len(self.signatures)])
    ELSE validate_signatures(SubSeq(self.signatures, 1, min_threshold),
                             EssenceHash(self.essence), applicable_public_keys, 0)

\* A validation that counts the signatures before the applicable keys.
validate_signatures_counted_first(self, applicable_public_keys, min_threshold) ==
    IF min_threshold = 0
    THEN Err([kind |-> "InvalidMinThreshold"])
    ELSE IF Len(self.signatures) < min_threshold
    THEN Err([kind |-> "TooFewSignatures",
              min |-> min_threshold, len |-> Len(self.signatures)])
    ELSE IF Len(applicable_public_keys) < min_threshold
    THEN Err([kind |-> "InsufficientApplicablePublicKeys",
              len |-> Len(applicable_public_keys), min |-> min_threshold])
    ELSE validate_signatures(self.signatures, EssenceHash(self.essence),
                             applicable_public_keys, 0)

validate(self, applicable_public_keys, min_threshold) ==
    IF min_threshold = 0
    THEN Err([kind |-> "InvalidMinThreshold"])
    ELSE IF Len(applicable_public_keys) < min_threshold
    THEN Err([kind |-> "InsufficientApplicablePublicKeys",
              len |-> Len(applicable_public_keys), min |-> min_threshold])
    ELSE IF Len(self.signatures) < min_threshold
    THEN Err([kind |-> "TooFewSignatures",
              min |-> min_threshold, len |-> Len(self.signatures)])
    ELSE validate_signatures(self.signatures, EssenceHash(self.essence),
                             applicable_public_keys, 0)

----------------------------------------------------------------------------
(* MilestonePayloadDto and the conversions. *)

\* From<&Signature> for SignatureDto: both byte arrays as prefix-hex strings.
\* The string of the signature bytes is kept as the bytes it denotes.
SignatureDto_from(sig) ==
    [kind |-> 0, public_key |-> id_to_string(sig.public_key),
     signature |-> [prefix_hex |-> sig.signature]]

\* TryFrom<&SignatureDto> for Signature.
Signature_try_from_dto(v) ==
    LET public_key == id_from_str(v.public_key)
    IN  IF ~public_key.ok THEN Err([kind |-> "InvalidField", field |-> "publicKey"])
        ELSE Ok(Ed25519Signature(public_key.value, v.signature.prefix_hex))

\* From<&MilestonePayload> for MilestonePayloadDto.
MilestonePayloadDto_from(value) ==
    [kind |-> 7,
     index |-> value.essence.index,
     timestamp |-> value.essence.timestamp,
     protocol_version |-> value.essence.protocol_version,
     previous_milestone_id |-> id_to_string(value.essence.previous_milestone_id),
     parents |-> [i \in 1..Len(value.essence.parents) |->
                     id_to_string(value.essence.parents[i])],
     inclusion_merkle_root |-> id_to_string(value.essence.inclusion_merkle_root),
     applied_merkle_root |-> id_to_string(value.essence.applied_merkle_root),
     metadata |-> prefix_hex_encode(value.essence.metadata),
     options |-> value.essence.options,
     signatures |-> [i \in 1..Len(value.signatures) |->
                        SignatureDto_from(value.signatures[i])]]

\* The body the two DTO conversions share: every field parsed in the order of
\* the source, the essence built with the given protocol version, then
\* MilestonePayload::new.
milestone_from_dto(value, protocol_version) ==
    LET previous_milestone_id == id_from_str(value.previous_milestone_id)
        parent_ids == [i \in 1..Len(value.parents) |-> id_from_str(value.parents[i])]
        inclusion_merkle_root == id_from_str(value.inclusion_merkle_root)
        applied_merkle_root == id_from_str(value.applied_merkle_root)
        metadata == IF value.metadata # ""
                    THEN prefix_hex_decode(value.metadata)
                    ELSE Ok(<<>>)
        sigs == [i \in 1..Len(value.signatures) |->
                    Signature_try_from_dto(value.signatures[i])]
        InvalidField(f) == Err([kind |-> "InvalidField", field |-> f])
    IN  IF ~previous_milestone_id.ok THEN InvalidField("previousMilestoneId")
        ELSE IF \E i \in 1..Len(parent_ids) : ~parent_ids[i].ok THEN InvalidField("parents")
        ELSE IF ~inclusion_merkle_root.ok THEN InvalidField("inclusionMerkleRoot")
        ELSE IF ~applied_merkle_root.ok THEN InvalidField("appliedMerkleRoot")
        ELSE IF ~metadata.ok THEN InvalidField("metadata")
        ELSE
            LET e == MilestoneEssence_new(
                        value.index, value.timestamp, protocol_version,
                        previous_milestone_id.value,
                        [i \in 1..Len(parent_ids) |-> parent_ids[i].value],
                        inclusion_merkle_root.value, applied_merkle_root.value,
                        metadata.value, value.options)
            IN  IF ~e.ok THEN e
                ELSE IF \E i \in 1..Len(sigs) : ~sigs[i].ok THEN InvalidField("signatures")
                ELSE MilestonePayload_new(e.value, [i \in 1..Len(sigs) |-> sigs[i].value])

\* MilestonePayload::try_from_dto: the protocol version is the parameters'.
try_from_dto(value, params) ==
    milestone_from_dto(value, params.protocol_version)

\* MilestonePayload::try_from_dto_unverified: the protocol version is the DTO's.
try_from_dto_unverified(value) ==
    milestone_from_dto(value, value.protocol_version)

----------------------------------------------------------------------------
(* ReceiptMilestoneOption: the funds. *)

\* u64, scaled to eight bits: two little-endian "bytes" of four bits each.
U64_MAX == 2^8 - 1

MIGRATED_FUNDS_ENTRY_MIN == 1
MIGRATED_FUNDS_ENTRY_MAX == 128

\* ReceiptFundsCount = BoundedU16<1, 128>: TryFrom<usize>.
ReceiptFundsCount_try_from(n) ==
    IF n >= MIGRATED_FUNDS_ENTRY_MIN /\ n <= MIGRATED_FUNDS_ENTRY_MAX
    THEN Ok(n)
    ELSE Err([kind |-> "InvalidReceiptFundsCount", count |-> n])

\* MigratedFundsEntry { tail_transaction_hash, address, amount }.
MigratedFundsEntry(h, a, n) == [tail_transaction_hash |-> h, address |-> a, amount |-> n]

\* PackableExt::pack_to_vec of an entry: the fields in order, the amount
\* little-endian.
pack_to_vec(f) ==
    <<f.tail_transaction_hash, f.address, f.amount % 16, f.amount \div 16>>

RECURSIVE bytes_less(_, _)
\* Ord of Vec<u8>: lexicographic.
bytes_less(a, b) ==
    IF b = <<>> THEN FALSE
    ELSE IF a = <<>> THEN TRUE
    ELSE IF Head(a) # Head(b) THEN Head(a) < Head(b)
    ELSE bytes_less(Tail(a), Tail(b))

\* iterator_sorted::is_unique_sorted over Vec<u8>: strictly increasing.
is_unique_sorted_bytes(vs) ==
    \A i \in 1..(Len(vs) - 1) : bytes_less(vs[i], vs[i + 1])

RECURSIVE verify_funds_loop_wrapping(_, _, _, _, _)
\* A loop whose running sum wraps around u64 instead of failing.
verify_funds_loop_wrapping(fs, token_supply, tail_transaction_hashes, funds_sum, index) ==
    IF index >= Len(fs) THEN Ok(<<>>)
    ELSE
        LET f == fs[index + 1]
            h == f.tail_transaction_hash
            wrapped == (funds_sum + f.amount) % (U64_MAX + 1)
        IN  IF \E entry \in tail_transaction_hashes : entry[1] = h
            THEN Err([kind |-> "TailTransactionHashNotUnique",
                      previous |-> (CHOOSE entry \in tail_transaction_hashes :
                                        entry[1] = h)[2],
                      current |-> index])
            ELSE IF wrapped > token_supply
            THEN Err([kind |-> "InvalidReceiptFundsSum", sum |-> wrapped])
            ELSE verify_funds_loop_wrapping(fs, token_supply,
                                            tail_transaction_hashes \cup {<<h, index>>},
                                            wrapped, index + 1)

RECURSIVE verify_funds_loop(_, _, _, _, _)
\* The loop of verify_funds from 0-based position index on;
\* tail_transaction_hashes is the HashMap from each hash seen to its position,
\* as the set of its (hash, position) entries.
verify_funds_loop(fs, token_supply, tail_transaction_hashes, funds_sum, index) ==
    IF index >= Len(fs) THEN Ok(<<>>)
    ELSE
        LET f == fs[index + 1]
            h == f.tail_transaction_hash
        IN  IF \E entry \in tail_transaction_hashes : entry[1] = h
            THEN Err([kind |-> "TailTransactionHashNotUnique",
                      previous |-> (CHOOSE entry \in tail_transaction_hashes :
                                        entry[1] = h)[2],
                      current |-> index])
            ELSE IF funds_sum + f.amount > U64_MAX
            THEN Err([kind |-> "InvalidReceiptFundsSum", sum |-> funds_sum + f.amount])
            ELSE IF funds_sum + f.amount > token_supply
            THEN Err([kind |-> "InvalidReceiptFundsSum", sum |-> funds_sum + f.amount])
            ELSE verify_funds_loop(fs, token_supply,
                                   tail_transaction_hashes \cup {<<h, index>>},
                                   funds_sum + f.amount, index + 1)

\* A verification that walks the entries before it looks at their order.
verify_funds_order_last(VERIFY, fs, token_supply) ==
    LET walked == verify_funds_loop(fs, token_supply, {}, 0, 0)
    IN  IF ~VERIFY THEN Ok(<<>>)
        ELSE IF ~walked.ok THEN walked
        ELSE IF ~is_unique_sorted_bytes([i \in 1..Len(fs) |-> pack_to_vec(fs[i])])
        THEN Err([kind |-> "ReceiptFundsNotUniqueSorted"])
        ELSE Ok(<<>>)

\* A verification that adds the amount before it looks up the hash.
verify_funds_sum_first(VERIFY, fs, token_supply) ==
    LET RECURSIVE loop(_, _, _)
        loop(hashes, funds_sum, index) ==
            IF index >= Len(fs) THEN Ok(<<>>)
            ELSE
                LET f == fs[index + 1]
                IN  IF funds_sum + f.amount > token_supply
                    THEN Err([kind |-> "InvalidReceiptFundsSum",
                              sum |-> funds_sum + f.amount])
                    ELSE IF \E entry \in hashes : entry[1] = f.tail_transaction_hash
                    THEN Err([kind |-> "TailTransactionHashNotUnique",
                              previous |-> (CHOOSE entry \in hashes :
                                    entry[1] = f.tail_transaction_hash)[2],
                              current |-> index])
                    ELSE loop(hashes \cup {<<f.tail_transaction_hash, index>>},
                              funds_sum + f.amount, index + 1)
    IN  IF ~VERIFY THEN Ok(<<>>)
        ELSE IF ~is_unique_sorted_bytes([i \in 1..Len(fs) |-> pack_to_vec(fs[i])])
        THEN Err([kind |-> "ReceiptFundsNotUniqueSorted"])
        ELSE loop({}, 0, 0)

\* verify_funds::<VERIFY>.
verify_funds(VERIFY, fs, token_supply) ==
    IF ~VERIFY THEN Ok(<<>>)
    ELSE IF ~is_unique_sorted_bytes([i \in 1..Len(fs) |-> pack_to_vec(fs[i])])
    THEN Err([kind |-> "ReceiptFundsNotUniqueSorted"])
    ELSE verify_funds_loop(fs, token_supply, {}, 0, 0)

\* The payload kinds: a treasury transaction, and another one.
TreasuryTransactionKind == "TreasuryTransaction"
PayloadKinds == {TreasuryTransactionKind, "TaggedData"}

\* Payload::from(TreasuryTransactionPayload).
Payload_from_treasury(t) == [kind |-> TreasuryTransactionKind, body |-> t]

\* verify_transaction::<VERIFY>.
verify_transaction(VERIFY, t) ==
    IF VERIFY /\ t.kind # TreasuryTransactionKind
    THEN Err([kind |-> "InvalidPayloadKind", payload_kind |-> t.kind])
    ELSE Ok(<<>>)

\* A constructor that checks the count and nothing else.
ReceiptMilestoneOption_new_count_only(migrated_at, is_last, fs, t, token_supply) ==
    LET count == ReceiptFundsCount_try_from(Len(fs))
    IN  IF ~count.ok THEN count
        ELSE Ok([migrated_at |-> migrated_at, last |-> is_last, funds |-> fs,
                 transaction |-> Payload_from_treasury(t)])

\* ReceiptMilestoneOption::new; t is a TreasuryTransactionPayload.
ReceiptMilestoneOption_new(migrated_at, is_last, fs, t, token_supply) ==
    LET count == ReceiptFundsCount_try_from(Len(fs))
        verified == verify_funds(TRUE, fs, token_supply)
    IN  IF ~count.ok THEN count
        ELSE IF ~verified.ok THEN verified
        ELSE Ok([migrated_at |-> migrated_at, last |-> is_last, funds |-> fs,
                 transaction |-> Payload_from_treasury(t)])

----------------------------------------------------------------------------
(* Decoding a length-prefixed sequence (VecPrefix<T, Bounded>), as the     *)
(* derived Packable of MilestonePayload and of ReceiptMilestoneOption does *)
(* it for the fields signatures and funds: the prefix, which must convert  *)
(* to the bounded count; then that many items; then the field's verifier.  *)

\* The largest value of the prefix type: u8 for signatures, u16 for funds.
PrefixMax(field) == IF field = "signatures" THEN 2^8 - 1 ELSE 2^16 - 1

\* TryFrom of the field's bounded count.
BoundedPrefix_try_from(field, n) ==
    IF field = "signatures" THEN SignatureCount_try_from(n)
    ELSE ReceiptFundsCount_try_from(n)

\* verify_signatures_packable / verify_funds_packable.
verify_with(field, VERIFY, items, params) ==
    IF field = "signatures" THEN verify_signatures(VERIFY, items)
    ELSE verify_funds(VERIFY, items, params.token_supply)

\* The unpacker before the first byte of the field is read.
UnpackStart(VERIFY) ==
    [pc |-> "prefix", verify |-> VERIFY, len |-> 0, items |-> <<>>,
     verifier_ran |-> FALSE, result |-> None]

\* A decoding that reads the items under any prefix and leaves the bound of
\* the count to the end.
unpack_step_bound_last(w, u, params) ==
    CASE u.pc = "prefix" -> [u EXCEPT !.pc = "items", !.len = w.prefix]
      [] u.pc = "items" ->
            IF Len(u.items) = u.len THEN [u EXCEPT !.pc = "verify"]
            ELSE IF Len(u.items) >= Len(w.items)
            THEN [u EXCEPT !.pc = "done",
                           !.result = Some(Err([kind |-> "UnexpectedEOF"]))]
            ELSE [u EXCEPT !.items = Append(@, w.items[Len(@) + 1])]
      [] u.pc = "verify" ->
            LET count == BoundedPrefix_try_from(w.field, w.prefix)
                v == verify_with(w.field, u.verify, u.items, params)
            IN  [u EXCEPT !.pc = "done", !.verifier_ran = TRUE,
                          !.result = Some(IF ~count.ok THEN count
                                          ELSE IF v.ok THEN Ok(u.items) ELSE v)]
      [] OTHER -> u

\* One step of the decoding of the field on wire w.
unpack_step(w, u, params) ==
    CASE u.pc = "prefix" ->
            LET count == BoundedPrefix_try_from(w.field, w.prefix)
            IN  IF ~count.ok
                THEN [u EXCEPT !.pc = "done", !.result = Some(count)]
                ELSE [u EXCEPT !.pc = "items", !.len = count.value]
      [] u.pc = "items" ->
            IF Len(u.items) = u.len THEN [u EXCEPT !.pc = "verify"]
            ELSE IF Len(u.items) >= Len(w.items)
            THEN [u EXCEPT !.pc = "done",
                           !.result = Some(Err([kind |-> "UnexpectedEOF"]))]
            ELSE [u EXCEPT !.items = Append(@, w.items[Len(@) + 1])]
      [] u.pc = "verify" ->
            LET v == verify_with(w.field, u.verify, u.items, params)
            IN  [u EXCEPT !.pc = "done", !.verifier_ran = TRUE,
                          !.result = Some(IF v.ok THEN Ok(u.items) ELSE v)]
      [] OTHER -> u

RECURSIVE unpack_run(_, _, _)
\* The decoding run to its end: the field, or the error.
unpack_run(w, u, params) ==
    IF u.pc = "done" THEN Unwrap(u.result)
    ELSE unpack_run(w, unpack_step(w, u, params), params)

\* Packable::pack of the field: the count, then the items.
pack_field(field, items) == [field |-> field, prefix |-> Len(items), items |-> items]

RECURSIVE SumRange(_, _, _)
\* The sum of the amounts of the entries lo to hi (1-based), by halves.
SumRange(fs, lo, hi) ==
    IF lo > hi THEN 0
    ELSE IF lo = hi THEN fs[lo].amount
    ELSE SumRange(fs, lo, (lo + hi) \div 2) + SumRange(fs, (lo + hi) \div 2 + 1, hi)

\* The sum of the amounts of the first n entries.
SumBefore(fs, n) == SumRange(fs, 1, n)

\* ReceiptMilestoneOption::amount: the u64 sum of the amounts.  When the sum
\* does not fit u64 the addition panics (overflow checks on) or wraps (off):
\* the outcomes the builds can produce.
ReceiptMilestoneOption_amount(self) ==
    LET total == SumBefore(self.funds, Len(self.funds))
    IN  IF total > U64_MAX
        THEN {[panic |-> "attempt to add with overflow"],
              [value |-> total % (U64_MAX + 1)]}
        ELSE {[value |-> total]}

\* ReceiptMilestoneOption::transaction: the treasury transaction, or the
\* unreachable!() branch.
ReceiptMilestoneOption_transaction(self) ==
    IF self.transaction.kind = TreasuryTransactionKind
    THEN [value |-> self.transaction.body]
    ELSE [panic |-> "unreachable"]

\* From<&MigratedFundsEntry> for MigratedFundsEntryDto.
MigratedFundsEntryDto_from(f) ==
    [tail_transaction_hash |-> id_to_string(f.tail_transaction_hash),
     address |-> f.address, deposit |-> f.amount]

\* MigratedFundsEntry::try_from_dto / try_from_dto_unverified.
MigratedFundsEntry_try_from_dto(v) ==
    LET h == id_from_str(v.tail_transaction_hash)
    IN  IF ~h.ok THEN Err([kind |-> "InvalidField", field |-> "tailTransactionHash"])
        ELSE Ok(MigratedFundsEntry(h.value, v.address, v.deposit))

\* TreasuryTransactionPayload::try_from_dto / try_from_dto_unverified.
TreasuryTransactionPayload_try_from_dto(t) == Ok(t.body)

\* The funds of a DTO converted entry by entry: the list, or the first error.
funds_try_from_dto(vs) ==
    LET converted == [i \in 1..Len(vs) |-> MigratedFundsEntry_try_from_dto(vs[i])]
        failed == {i \in 1..Len(vs) : ~converted[i].ok}
    IN  IF failed # {}
        THEN converted[CHOOSE i \in failed : \A j \in failed : i <= j]
        ELSE Ok([i \in 1..Len(vs) |-> converted[i].value])

\* ReceiptMilestoneOption::try_from_dto.
ReceiptMilestoneOption_try_from_dto(value, token_supply) ==
    LET fs == funds_try_from_dto(value.funds)
        t == TreasuryTransactionPayload_try_from_dto(value.transaction)
    IN  IF ~fs.ok THEN fs
        ELSE IF value.transaction.kind # TreasuryTransactionKind
        THEN Err([kind |-> "InvalidField", field |-> "transaction"])
        ELSE IF ~t.ok THEN t
        ELSE ReceiptMilestoneOption_new(value.migrated_at, value.last, fs.value,
                                        t.value, token_supply)

\* ReceiptMilestoneOption::try_from_dto_unverified.
ReceiptMilestoneOption_try_from_dto_unverified(value) ==
    LET fs == funds_try_from_dto(value.funds)
        count == ReceiptFundsCount_try_from(Len(fs.value))
        t == TreasuryTransactionPayload_try_from_dto(value.transaction)
    IN  IF ~fs.ok THEN fs
        ELSE IF ~count.ok THEN count
        ELSE IF value.transaction.kind # TreasuryTransactionKind
        THEN Err([kind |-> "InvalidField", field |-> "transaction"])
        ELSE IF ~t.ok THEN t
        ELSE Ok([migrated_at |-> value.migrated_at, last |-> value.last,
                 funds |-> fs.value, transaction |-> Payload_from_treasury(t.value)])

\* ReceiptMilestoneOption::unpack::<_, VERIFY>: migrated_at and last as
\* packed, the funds on wire w, then the payload t and its verifier.
ReceiptMilestoneOption_unpack(VERIFY, migrated_at, is_last, w, t, params) ==
    LET fs == unpack_run(w, UnpackStart(VERIFY), params)
        verified == verify_transaction(VERIFY, t)
    IN  IF ~fs.ok THEN fs
        ELSE IF ~verified.ok THEN verified
        ELSE Ok([migrated_at |-> migrated_at, last |-> is_last, funds |-> fs.value,
                 transaction |-> t])

\* MilestonePayload::unpack::<_, VERIFY> of pack(self): the essence as packed,
\* then the signatures.
MilestonePayload_unpack(VERIFY, e, w, params) ==
    LET sigs == unpack_run(w, UnpackStart(VERIFY), params)
    IN  IF ~sigs.ok THEN sigs
        ELSE Ok([essence |-> e, signatures |-> sigs.value])

----------------------------------------------------------------------------
(* The inputs. *)

\* The signatures a caller can attach to essence e: by a key over the essence,
\* by a key over the tampered essence, or under bytes that are no key.
SignaturesFor(e) ==
    {Ed25519Signature(k, Ed25519Sign(k, EssenceHash(m))) :
        k \in {j \in PublicKeys : IsEd25519Point(j)}, m \in {e, TamperedEssence(e)}}
    \cup {Ed25519Signature(k, Ed25519Sign(0, EssenceHash(e))) :
        k \in {j \in PublicKeys : ~IsEd25519Point(j)}}

\* A list of n signatures over e by the keys 0, 1, ..., n-1 that are points
\* (and under the bytes that are not), strictly sorted by key.
LongSignatures(e, n) ==
    [i \in 1..n |->
        Ed25519Signature(i - 1,
            Ed25519Sign(IF IsEd25519Point(i - 1) THEN i - 1 ELSE 0, EssenceHash(e)))]

SignatureLists(e) ==
    SeqsUpTo(SignaturesFor(e), MaxSigs)
    \cup {LongSignatures(e, n) : n \in {SIGNATURE_COUNT_MAX, SIGNATURE_COUNT_MAX + 1}}

\* The applicable keys as hex strings, entries repeated or not; validate reads
\* the list through len and contains only, so each is drawn in one order.
ApplicableKeyLists ==
    {[i \in 1..Len(ks) |-> hex_encode(<<ks[i]>>)] :
        ks \in {s \in SeqsUpTo(PublicKeys, MaxApplicable) :
                    \A i \in 1..(Len(s) - 1) : s[i] <= s[i + 1]}}

ProtocolParametersSet == [protocol_version : ProtocolVersions, token_supply : {100}]

----------------------------------------------------------------------------
(* The state machine. *)

\* The fields of a DTO that hold a string to parse.
DtoStringFields ==
    {"previousMilestoneId", "parents", "inclusionMerkleRoot",
     "appliedMerkleRoot", "metadata", "signatures"}

\* A DTO as it arrives from outside: the content the caller holds, and with
\* field f (if it is one of the string fields) not a prefix-hex string.
ReceivedDto(e, sigs, f) ==
    LET d == MilestonePayloadDto_from([essence |-> e, signatures |-> sigs])
    IN  CASE f = "previousMilestoneId" -> [d EXCEPT !.previous_milestone_id = "zz"]
          [] f = "parents" -> [d EXCEPT !.parents = <<"zz">>]
          [] f = "inclusionMerkleRoot" -> [d EXCEPT !.inclusion_merkle_root = "zz"]
          [] f = "appliedMerkleRoot" -> [d EXCEPT !.applied_merkle_root = "zz"]
          [] f = "metadata" -> [d EXCEPT !.metadata = "zz"]
          [] f = "signatures" ->
                [d EXCEPT !.signatures =
                    [i \in 1..Len(sigs) |->
                        IF i = 1 THEN [d.signatures[i] EXCEPT !.public_key = "zz"]
                        ELSE d.signatures[i]]]
          [] OTHER -> d

\* The variables of the receipt and of the decoder, when nothing uses them.
ReceiptIdle ==
    /\ funds = <<>>
    /\ transaction = [kind |-> TreasuryTransactionKind, body |-> 9]
    /\ receipt = None
UnpackIdle ==
    /\ wire = [field |-> "none", prefix |-> 0, items |-> <<>>]
    /\ unpacker = [UnpackStart(FALSE) EXCEPT !.pc = "done"]
BuilderIdle ==
    /\ builder = [inputs |-> <<>>, outputs |-> <<>>, payload |-> <<>>]
    /\ regular_essence = <<>>
AccountIdle ==
    /\ unspent_outputs = {}
OperationIdle ==
    /\ account_details = [unspent_outputs |-> {}, locked_outputs |-> {}, addresses |-> {}]
    /\ secret_manager = [kind |-> "Placeholder"]
    /\ node = [time |-> 0]
    /\ prepared_transaction = <<>>
WalletIdle ==
    /\ wallet = [accounts |-> <<>>]
    /\ snapshot = <<>>
    /\ locks = <<>>
    /\ tasks = <<>>
MilestoneIdle ==
    /\ essence = CHOOSE e \in Essences : TRUE
    /\ signatures = <<>>
    /\ payload = None
    /\ dto = None

InitWith(essences, parameters) ==
    /\ essence \in essences
    /\ signatures \in SignatureLists(essence)
    /\ protocol_parameters \in parameters
    /\ payload = None
    /\ dto = None
    /\ ReceiptIdle
    /\ UnpackIdle
    /\ BuilderIdle
    /\ AccountIdle
    /\ OperationIdle
    /\ WalletIdle
    /\ last = [op |-> "none"]

Init == InitWith(Essences, ProtocolParametersSet)

\* MilestonePayload::new(essence, signatures).
New ==
    /\ LET r == MilestonePayload_new(essence, signatures)
       IN  /\ payload' = IF r.ok THEN Some(r.value) ELSE None
           /\ last' = [op |-> "new", result |-> r]
    /\ UNCHANGED <<operation_vars, wallet_vars, builder_vars, account_vars, essence, signatures, protocol_parameters, dto, receipt_vars, unpack_vars>>

\* MilestonePayload::unpack_verified of the bytes that hold the caller's
\* essence and signatures, for the lists drawn element by element.
Unpack ==
    /\ Len(signatures) <= MaxSigs
    /\ LET r == MilestonePayload_unpack(TRUE, essence,
                    pack_field("signatures", signatures), protocol_parameters)
       IN  /\ payload' = IF r.ok THEN Some(r.value) ELSE None
           /\ last' = [op |-> "unpack_verified", result |-> r]
    /\ UNCHANGED <<operation_vars, wallet_vars, builder_vars, account_vars, essence, signatures, protocol_parameters, dto, receipt_vars, unpack_vars>>

\* MilestonePayloadDto::from(&payload).
ToDto ==
    /\ IsSome(payload)
    /\ dto' = Some(MilestonePayloadDto_from(Unwrap(payload)))
    /\ last' = [op |-> "to_dto", self |-> Unwrap(payload)]
    /\ UNCHANGED <<operation_vars, wallet_vars, builder_vars, account_vars, essence, signatures, protocol_parameters, payload, receipt_vars, unpack_vars>>

\* A DTO is deserialised from JSON.
ReceiveDto ==
    /\ last.op = "none"
    /\ \E f \in DtoStringFields \cup {"none"} :
          dto' = Some(ReceivedDto(essence, signatures, f))
    /\ last' = [op |-> "receive_dto"]
    /\ UNCHANGED <<operation_vars, wallet_vars, builder_vars, account_vars, essence, signatures, protocol_parameters, payload, receipt_vars, unpack_vars>>

\* MilestonePayload::try_from_dto(&dto, &protocol_parameters).  When the DTO
\* was just made from a payload, that payload is recorded as the source.
TryFromDto ==
    /\ IsSome(dto)
    /\ last.op \in {"to_dto", "receive_dto"}
    /\ LET r == try_from_dto(Unwrap(dto), protocol_parameters)
       IN  /\ payload' = IF r.ok THEN Some(r.value) ELSE None
           /\ last' = [op |-> "try_from_dto", dto |-> Unwrap(dto),
                       source |-> IF last.op = "to_dto" THEN Some(last.self) ELSE None,
                       result |-> r]
    /\ UNCHANGED <<operation_vars, wallet_vars, builder_vars, account_vars, essence, signatures, protocol_parameters, dto, receipt_vars, unpack_vars>>

\* MilestonePayload::try_from_dto_unverified(&dto).
TryFromDtoUnverified ==
    /\ IsSome(dto)
    /\ last.op \in {"to_dto", "receive_dto"}
    /\ LET r == try_from_dto_unverified(Unwrap(dto))
       IN  /\ payload' = IF r.ok THEN Some(r.value) ELSE None
           /\ last' = [op |-> "try_from_dto_unverified", dto |-> Unwrap(dto),
                       source |-> IF last.op = "to_dto" THEN Some(last.self) ELSE None,
                       result |-> r]
    /\ UNCHANGED <<operation_vars, wallet_vars, builder_vars, account_vars, essence, signatures, protocol_parameters, dto, receipt_vars, unpack_vars>>

\* payload.validate(applicable_public_keys, min_threshold).
Validate ==
    /\ IsSome(payload)
    /\ last.op # "validate"
    /\ \E keys \in ApplicableKeyLists, min_threshold \in 0..MaxThreshold :
          last' = [op |-> "validate", applicable_public_keys |-> keys,
                   min_threshold |-> min_threshold,
                   result |-> validate(Unwrap(payload), keys, min_threshold)]
    /\ UNCHANGED <<operation_vars, wallet_vars, builder_vars, account_vars, milestone_vars, protocol_parameters, receipt_vars, unpack_vars>>

Next ==
    \/ New
    \/ Unpack
    \/ ToDto
    \/ ReceiveDto
    \/ TryFromDto
    \/ TryFromDtoUnverified

Spec == Init /\ [][Next]_vars

\* The quorum validation of the payloads of one essence.
InitValidate ==
    InitWith({e \in Essences : e.protocol_version = 2 /\ e.metadata = <<>>},
             {p \in ProtocolParametersSet : p.protocol_version = 2})

NextValidate ==
    \/ New
    \/ Unpack
    \/ ToDto
    \/ TryFromDto
    \/ Validate

SpecValidate == InitValidate /\ [][NextValidate]_vars

----------------------------------------------------------------------------
(* The receipt milestone option. *)

TailTransactionHashes == {1, 2}
Addresses == {1}
Amounts == {20, 80, 200}

MigratedFundsEntries ==
    {MigratedFundsEntry(h, a, n) : h \in TailTransactionHashes, a \in Addresses, n \in Amounts}

\* vec![entry; n]: a list of n copies of one entry.
LongFunds(n) == [i \in 1..n |-> MigratedFundsEntry(1, 1, 1)]

\* A list of n entries, sorted and unique by their bytes, the first two with
\* the same tail-transaction hash.
LongSortedFunds(n) ==
    [i \in 1..n |->
        IF i = 1 THEN MigratedFundsEntry(0, 1, 1) ELSE MigratedFundsEntry(i - 2, 2, 1)]

FundsLists ==
    SeqsUpTo(MigratedFundsEntries, MaxFunds)
    \cup {LongFunds(n) : n \in {MIGRATED_FUNDS_ENTRY_MAX, MIGRATED_FUNDS_ENTRY_MAX + 1}}
    \cup {LongSortedFunds(n) : n \in {MIGRATED_FUNDS_ENTRY_MAX, MIGRATED_FUNDS_ENTRY_MAX + 1}}

ReceiptParametersSet == [protocol_version : {2}, token_supply : {100, U64_MAX}]

InitReceipt ==
    /\ funds \in FundsLists
    /\ transaction \in [kind : PayloadKinds, body : {9}]
    /\ protocol_parameters \in ReceiptParametersSet
    /\ receipt = None
    /\ MilestoneIdle
    /\ UnpackIdle
    /\ BuilderIdle
    /\ AccountIdle
    /\ OperationIdle
    /\ WalletIdle
    /\ last = [op |-> "none"]

\* ReceiptMilestoneOption::new(migrated_at, last, funds, transaction,
\* token_supply); the transaction is a TreasuryTransactionPayload by its type.
ReceiptNew ==
    /\ last.op = "none"
    /\ transaction.kind = TreasuryTransactionKind
    /\ \E is_last \in BOOLEAN :
          LET r == ReceiptMilestoneOption_new(3, is_last, funds, transaction.body,
                                              protocol_parameters.token_supply)
          IN  /\ receipt' = IF r.ok THEN Some(r.value) ELSE None
              /\ last' = [op |-> "receipt_new", result |-> r]
    /\ UNCHANGED <<operation_vars, wallet_vars, builder_vars, account_vars, milestone_vars, protocol_parameters, funds, transaction, unpack_vars>>

\* ReceiptMilestoneOption::unpack_verified / unpack_unverified of the bytes
\* that hold the caller's funds and payload, for the lists drawn element by
\* element.
ReceiptUnpack ==
    /\ last.op = "none"
    /\ Len(funds) <= MaxFunds
    /\ \E VERIFY \in BOOLEAN :
          LET r == ReceiptMilestoneOption_unpack(VERIFY, 3, TRUE,
                        pack_field("funds", funds), transaction, protocol_parameters)
          IN  /\ receipt' = IF r.ok THEN Some(r.value) ELSE None
              /\ last' = [op |-> "receipt_unpack", verify |-> VERIFY, result |-> r]
    /\ UNCHANGED <<operation_vars, wallet_vars, builder_vars, account_vars, milestone_vars, protocol_parameters, funds, transaction, unpack_vars>>

\* A ReceiptMilestoneOptionDto as it arrives from outside, with the caller's
\* funds and payload.
ReceivedReceiptDto(fs, t, is_last) ==
    [kind |-> 0, migrated_at |-> 3, last |-> is_last,
     funds |-> [i \in 1..Len(fs) |-> MigratedFundsEntryDto_from(fs[i])],
     transaction |-> t]

\* ReceiptMilestoneOption::try_from_dto(&dto, token_supply).
ReceiptTryFromDto ==
    /\ last.op = "none"
    /\ \E is_last \in BOOLEAN :
          LET r == ReceiptMilestoneOption_try_from_dto(
                        ReceivedReceiptDto(funds, transaction, is_last),
                        protocol_parameters.token_supply)
          IN  /\ receipt' = IF r.ok THEN Some(r.value) ELSE None
              /\ last' = [op |-> "receipt_try_from_dto", result |-> r]
    /\ UNCHANGED <<operation_vars, wallet_vars, builder_vars, account_vars, milestone_vars, protocol_parameters, funds, transaction, unpack_vars>>

\* ReceiptMilestoneOption::try_from_dto_unverified(&dto).
ReceiptTryFromDtoUnverified ==
    /\ last.op = "none"
    /\ \E is_last \in BOOLEAN :
          LET r == ReceiptMilestoneOption_try_from_dto_unverified(
                        ReceivedReceiptDto(funds, transaction, is_last))
          IN  /\ receipt' = IF r.ok THEN Some(r.value) ELSE None
              /\ last' = [op |-> "receipt_try_from_dto_unverified", result |-> r]
    /\ UNCHANGED <<operation_vars, wallet_vars, builder_vars, account_vars, milestone_vars, protocol_parameters, funds, transaction, unpack_vars>>

\* The operations that read a receipt.
ReceiptAccessors == {"receipt_transaction", "receipt_amount"}

\* receipt.transaction(), on the receipt the last construction produced.
ReceiptTransaction ==
    /\ IsSome(receipt)
    /\ last.op \notin ReceiptAccessors
    /\ last' = [op |-> "receipt_transaction", built_by |-> last,
                result |-> ReceiptMilestoneOption_transaction(Unwrap(receipt))]
    /\ UNCHANGED <<operation_vars, wallet_vars, builder_vars, account_vars, milestone_vars, protocol_parameters, receipt_vars, unpack_vars>>

\* receipt.amount(), on the receipt the last construction produced.
ReceiptAmount ==
    /\ IsSome(receipt)
    /\ last.op \notin ReceiptAccessors
    /\ \E out \in ReceiptMilestoneOption_amount(Unwrap(receipt)) :
          last' = [op |-> "receipt_amount", built_by |-> last, result |-> out]
    /\ UNCHANGED <<operation_vars, wallet_vars, builder_vars, account_vars, milestone_vars, protocol_parameters, receipt_vars, unpack_vars>>

NextReceipt ==
    \/ ReceiptNew
    \/ ReceiptUnpack
    \/ ReceiptTryFromDto
    \/ ReceiptTryFromDtoUnverified
    \/ ReceiptTransaction
    \/ ReceiptAmount

SpecReceipt == InitReceipt /\ [][NextReceipt]_vars

----------------------------------------------------------------------------
(* The decoding of a length-prefixed sequence, step by step. *)

\* The encodings: any prefix value of the prefix type's boundary cases, and
\* the items that follow it.
Wires ==
    LET e == CHOOSE x \in Essences : TRUE
    IN  {[field |-> "signatures", prefix |-> n, items |-> items] :
            n \in (0..(MaxSigs + 1)) \cup {SIGNATURE_COUNT_MAX},
            items \in SeqsUpTo(SignaturesFor(e), 2)}
        \cup
        {[field |-> "funds", prefix |-> n, items |-> items] :
            n \in (0..(MaxFunds + 1))
                  \cup {MIGRATED_FUNDS_ENTRY_MAX, MIGRATED_FUNDS_ENTRY_MAX + 1,
                        PrefixMax("funds")},
            items \in SeqsUpTo({f \in MigratedFundsEntries : f.address = 1}, 2)}

InitUnpack ==
    /\ wire \in Wires
    /\ \E VERIFY \in BOOLEAN : unpacker = UnpackStart(VERIFY)
    /\ protocol_parameters \in ReceiptParametersSet
    /\ MilestoneIdle
    /\ ReceiptIdle
    /\ BuilderIdle
    /\ AccountIdle
    /\ OperationIdle
    /\ WalletIdle
    /\ last = [op |-> "none"]

\* The prefix is read and converted to the bounded count.
UnpackPrefix ==
    /\ unpacker.pc = "prefix"
    /\ unpacker' = unpack_step(wire, unpacker, protocol_parameters)
    /\ UNCHANGED <<operation_vars, wallet_vars, builder_vars, account_vars, milestone_vars, protocol_parameters, receipt_vars, wire, last>>

\* The next item is decoded, or the loop over the items ends.
UnpackItem ==
    /\ unpacker.pc = "items"
    /\ unpacker' = unpack_step(wire, unpacker, protocol_parameters)
    /\ UNCHANGED <<operation_vars, wallet_vars, builder_vars, account_vars, milestone_vars, protocol_parameters, receipt_vars, wire, last>>

\* The field's verifier runs on the decoded sequence.
UnpackVerify ==
    /\ unpacker.pc = "verify"
    /\ unpacker' = unpack_step(wire, unpacker, protocol_parameters)
    /\ UNCHANGED <<operation_vars, wallet_vars, builder_vars, account_vars, milestone_vars, protocol_parameters, receipt_vars, wire, last>>

NextUnpack ==
    \/ UnpackPrefix
    \/ UnpackItem
    \/ UnpackVerify

SpecUnpack == InitUnpack /\ [][NextUnpack]_vars

----------------------------------------------------------------------------
(* Properties of MilestonePayload::validate (under SpecValidate). *)

\* Signature i (1-based) of payload p carries a key of the applicable list.
Applicable(p, keys, i) ==
    hex_encode(<<p.signatures[i].public_key>>) \in Range(keys)

\* Signature i (1-based) of payload p verifies against the essence hash of p:
\* its key is a public key and the signature is that key's over the hash.
Verifies(p, i) ==
    /\ IsEd25519Point(p.signatures[i].public_key)
    /\ Ed25519Verify(p.signatures[i].public_key, p.signatures[i].signature,
                     EssenceHash(p.essence))

Validated == last.op = "validate"

\* C1: validate returns Ok if and only if min_threshold >= 1, the applicable
\* list has at least min_threshold entries, the payload carries at least
\* min_threshold signatures, and every attached signature has its key in the
\* applicable list and verifies against the essence hash.
C1_ValidateOkIff ==
    Validated =>
        LET p == Unwrap(payload)
            keys == last.applicable_public_keys
        IN  last.result.ok <=>
                /\ last.min_threshold >= 1
                /\ Len(keys) >= last.min_threshold
                /\ Len(p.signatures) >= last.min_threshold
                /\ \A i \in 1..Len(p.signatures) : Applicable(p, keys, i) /\ Verifies(p, i)

\* Three applicable keys, threshold 2, two matching valid signatures: Ok.
C1_Witness ==
    /\ Validated
    /\ last.result.ok
    /\ last.min_threshold = 2
    /\ Len(last.applicable_public_keys) = 3
    /\ Len(Unwrap(payload).signatures) = 2

\* The signers that count towards the quorum: the distinct keys of the
\* applicable list with a signature of the payload that verifies.
AuthorizedSigners(p, keys) ==
    {p.signatures[i].public_key : i \in
        {j \in 1..Len(p.signatures) : Applicable(p, keys, j) /\ Verifies(p, j)}}

\* C2: whenever validate(applicable_public_keys, N) returns Ok on a payload
\* built by MilestonePayload::new or try_from_dto, at least N distinct
\* authorized signers have signed the essence.
C2_Quorum ==
    (Validated /\ last.result.ok) =>
        Cardinality(AuthorizedSigners(Unwrap(payload), last.applicable_public_keys))
            >= last.min_threshold

\* The 0-based position of the first signature that fails a check, or the
\* number of signatures when none fails.
FirstFailing(p, keys) ==
    LET failing == {i \in 1..Len(p.signatures) : ~(Applicable(p, keys, i) /\ Verifies(p, i))}
    IN  IF failing = {} THEN Len(p.signatures)
        ELSE (CHOOSE i \in failing : \A j \in failing : i <= j) - 1

\* The result the checks before the loop over the signatures give, if one fails.
ThresholdError(p, keys, min_threshold) ==
    IF min_threshold = 0 THEN Some([kind |-> "InvalidMinThreshold"])
    ELSE IF Len(keys) < min_threshold
    THEN Some([kind |-> "InsufficientApplicablePublicKeys",
               len |-> Len(keys), min |-> min_threshold])
    ELSE IF Len(p.signatures) < min_threshold
    THEN Some([kind |-> "TooFewSignatures",
               min |-> min_threshold, len |-> Len(p.signatures)])
    ELSE None

----------------------------------------------------------------------------
(* Properties of the construction of a MilestonePayload (under Spec). *)

\* The last operation built, or refused to build, a payload with the checks on.
BuiltVerified == last.op \in {"new", "try_from_dto", "unpack_verified"}

\* C4: every payload that MilestonePayload::new, try_from_dto or the verifying
\* decode produces has its signers' public keys strictly sorted and pairwise
\* distinct; a list that is not is refused with MilestoneSignaturesNotUniqueSorted.
C4_SignersUniqueSorted ==
    BuiltVerified =>
        /\ last.result.ok =>
              LET keys == PublicKeysOf(last.result.value.signatures)
              IN  \A i, j \in 1..Len(keys) : i < j => keys[i] < keys[j]
        /\ (last.op = "new" /\ Len(signatures) \in 1..255
                /\ ~is_unique_sorted(PublicKeysOf(signatures)))
              => last.result = Err([kind |-> "MilestoneSignaturesNotUniqueSorted"])

\* The last operation was a construction from the caller's list or from a DTO.
Constructed == last.op \in {"new", "try_from_dto", "try_from_dto_unverified"}

\* The number of signatures handed to the last construction.
SignatureCountOf ==
    IF last.op = "new" THEN Len(signatures) ELSE Len(last.dto.signatures)

\* The last construction stopped at a string field that does not parse,
\* before the count of the signatures was looked at.
StoppedAtField == ~last.result.ok /\ last.result.error.kind = "InvalidField"

\* The count error for a list of n signatures.
SignatureCountError(n) == Err([kind |-> "MilestoneInvalidSignatureCount", count |-> n])

\* C5: MilestonePayload::new and both DTO conversions accept a signature list
\* only if its length lies in [1,255]: they return MilestoneInvalidSignatureCount
\* for 0 and for more than 255 signatures (the DTO conversions once the string
\* fields have parsed), and for 1 to 255 the count does not make them fail
\* (new then succeeds).
C5_SignatureCount ==
    Constructed =>
        LET n == SignatureCountOf
        IN  IF n \in 1..255
            THEN /\ \A m \in 0..256 : last.result # SignatureCountError(m)
                 /\ last.op = "new" => last.result.ok
            ELSE /\ ~last.result.ok
                 /\ ~StoppedAtField => last.result = SignatureCountError(n)

\* A list of exactly 255 signatures is accepted by the verified DTO conversion.
C5_Witness ==
    /\ last.op = "try_from_dto"
    /\ Len(last.dto.signatures) = 255
    /\ last.result.ok

\* C6: try_from_dto rejects every DTO that the verifying binary decode of the
\* same content rejects; the payloads accepted through the DTO are those
\* accepted through the bytes.
C6_DtoAsStrictAsBinary ==
    (last.op = "try_from_dto" /\ last.result.ok /\ Len(last.dto.signatures) <= MaxSigs) =>
        MilestonePayload_unpack(TRUE, last.result.value.essence,
            pack_field("signatures", last.result.value.signatures),
            protocol_parameters).ok

\* C7: for every payload P and the protocol parameters in force,
\* try_from_dto(&MilestonePayloadDto::from(&P), params) succeeds and equals P
\* field for field.
C7_DtoRoundTrip ==
    (last.op = "try_from_dto" /\ IsSome(last.source)) =>
        last.result = Ok(Unwrap(last.source))

----------------------------------------------------------------------------
(* Properties of the decoding of a length-prefixed sequence (under SpecUnpack). *)

\* The prefix on the wire lies in the range the field declares.
PrefixInRange(w) ==
    IF w.field = "signatures" THEN w.prefix \in 1..255 ELSE w.prefix \in 1..128

\* The count error of the field, for the prefix on the wire.
PrefixCountError(w) ==
    Err([kind |-> IF w.field = "signatures" THEN "MilestoneInvalidSignatureCount"
                  ELSE "InvalidReceiptFundsCount",
         count |-> w.prefix])

\* C8: when the length prefix lies outside the declared range, the decoding
\* fails with the count error of the field, no element has been decoded and
\* the verifier has not run.
C8_PrefixOutOfRange ==
    ~PrefixInRange(wire) =>
        /\ unpacker.items = <<>>
        /\ ~unpacker.verifier_ran
        /\ \/ unpacker.pc = "prefix"
           \/ unpacker.pc = "done" /\ unpacker.result = Some(PrefixCountError(wire))

\* A funds prefix of 129 followed by entries: the decoding has ended.
C8_Witness ==
    /\ wire.field = "funds"
    /\ wire.prefix = 129
    /\ Len(wire.items) > 0
    /\ unpacker.verify
    /\ unpacker.pc = "done"

----------------------------------------------------------------------------
(* Properties of the funds of a ReceiptMilestoneOption (under SpecReceipt). *)

\* The last operation built, or refused to build, a receipt with the checks on.
ReceiptBuilt ==
    \/ last.op = "receipt_new"
    \/ last.op = "receipt_unpack" /\ last.verify

\* The list is strictly increasing in the order of the entries' bytes.
StrictlyIncreasing(fs) ==
    \A i \in 1..(Len(fs) - 1) : bytes_less(pack_to_vec(fs[i]), pack_to_vec(fs[i + 1]))

\* C9 as stated: any funds list that is not strictly increasing is refused
\* with ReceiptFundsNotUniqueSorted.
C9_UnsortedRefused ==
    (ReceiptBuilt /\ ~StrictlyIncreasing(funds)) =>
        last.result = Err([kind |-> "ReceiptFundsNotUniqueSorted"])

\* C9 as amended: a funds list that is not strictly increasing is refused;
\* with ReceiptFundsNotUniqueSorted when it has at most 128 entries, whatever
\* its hashes and amounts are, and with InvalidReceiptFundsCount when it has more.
C9_UnsortedRefusedInRange ==
    (ReceiptBuilt /\ ~StrictlyIncreasing(funds)) =>
        IF Len(funds) <= 128
        THEN last.result = Err([kind |-> "ReceiptFundsNotUniqueSorted"])
        ELSE last.result = Err([kind |-> "InvalidReceiptFundsCount", count |-> Len(funds)])

\* A list that is unsorted, repeats a hash and is over the token supply is
\* refused by new for its order.
C9_Witness ==
    /\ last.op = "receipt_new"
    /\ Len(funds) = 2
    /\ ~StrictlyIncreasing(funds)
    /\ funds[1].tail_transaction_hash = funds[2].tail_transaction_hash
    /\ SumBefore(funds, 2) > protocol_parameters.token_supply
    /\ last.result = Err([kind |-> "ReceiptFundsNotUniqueSorted"])

\* The 0-based positions whose hash an earlier entry carries.
RepeatPositions(fs) ==
    {j - 1 : j \in {k \in 1..Len(fs) :
        \E i \in 1..(k - 1) : fs[i].tail_transaction_hash = fs[k].tail_transaction_hash}}

\* The smallest position that repeats an earlier hash.
FirstRepeat(fs) == CHOOSE c \in RepeatPositions(fs) : \A d \in RepeatPositions(fs) : c <= d

\* Result r is TailTransactionHashNotUnique { previous, current } as C10
\* describes it for the list fs.
TailHashError(fs, r) ==
    /\ ~r.ok
    /\ r.error.kind = "TailTransactionHashNotUnique"
    /\ r.error.previous >= 0
    /\ r.error.previous < r.error.current
    /\ r.error.current < Len(fs)
    /\ fs[r.error.previous + 1].tail_transaction_hash
          = fs[r.error.current + 1].tail_transaction_hash
    /\ r.error.current = FirstRepeat(fs)

\* C10 as stated: when two entries of a sorted, unique funds list carry the
\* same hash, construction fails with TailTransactionHashNotUnique
\* { previous, current }, previous < current, both positions of the list with
\* the same hash, current the smallest position that repeats an earlier hash.
C10_TailHashError ==
    (ReceiptBuilt /\ StrictlyIncreasing(funds) /\ RepeatPositions(funds) # {}) =>
        TailHashError(funds, last.result)

\* C10 as amended: as C10_TailHashError, for a list of at most 128 entries
\* whose amounts before the position current sum to at most the token supply.
C10_TailHashErrorWithinSupply ==
    (ReceiptBuilt /\ StrictlyIncreasing(funds) /\ RepeatPositions(funds) # {}) =>
        IF Len(funds) > 128
        THEN last.result = Err([kind |-> "InvalidReceiptFundsCount", count |-> Len(funds)])
        ELSE IF SumBefore(funds, FirstRepeat(funds)) > protocol_parameters.token_supply
        THEN ~last.result.ok /\ last.result.error.kind = "InvalidReceiptFundsSum"
        ELSE TailHashError(funds, last.result)

\* Three entries, the third with the hash of the second: positions 1 and 2.
C10_Witness ==
    /\ last.op = "receipt_new"
    /\ Len(funds) = 3
    /\ ~last.result.ok
    /\ last.result.error.kind = "TailTransactionHashNotUnique"
    /\ last.result.error.previous = 1
    /\ last.result.error.current = 2

\* The 0-based positions at which the running sum of the amounts, taken as a
\* mathematical integer, exceeds the token supply.
OverPositions(fs, token_supply) ==
    {k - 1 : k \in {j \in 1..Len(fs) : SumBefore(fs, j) > token_supply}}

\* The first of them.
FirstOver(fs, token_supply) ==
    CHOOSE c \in OverPositions(fs, token_supply) :
        \A d \in OverPositions(fs, token_supply) : c <= d

\* C11 as stated: any funds list whose running sum exceeds the token supply
\* at some entry is rejected with InvalidReceiptFundsSum carrying the exact
\* sum, and a list that meets the other rules and sums to at most the token
\* supply is accepted.
C11_FundsSum ==
    last.op = "receipt_new" =>
        LET supply == protocol_parameters.token_supply
        IN  IF OverPositions(funds, supply) = {}
            THEN (Len(funds) \in 1..128 /\ StrictlyIncreasing(funds)
                    /\ RepeatPositions(funds) = {}) => last.result.ok
            ELSE last.result = Err([kind |-> "InvalidReceiptFundsSum",
                        sum |-> SumBefore(funds, FirstOver(funds, supply) + 1)])

\* C11 as amended: for a sorted, unique funds list of 1 to 128 entries in
\* which no entry up to the first one where the running sum exceeds the token
\* supply repeats an earlier hash, new rejects with InvalidReceiptFundsSum
\* carrying the exact running sum at that entry, also when it does not fit
\* u64; a list with unique hashes whose amounts sum to at most the token
\* supply, exactly the supply included, is accepted.
C11_FundsSumOfValidList ==
    (last.op = "receipt_new" /\ Len(funds) \in 1..128 /\ StrictlyIncreasing(funds)) =>
        LET supply == protocol_parameters.token_supply
            over == OverPositions(funds, supply)
            repeats == RepeatPositions(funds)
        IN  IF over = {} THEN (repeats = {} => last.result.ok)
            ELSE (\A c \in repeats : c > FirstOver(funds, supply)) =>
                    last.result = Err([kind |-> "InvalidReceiptFundsSum",
                        sum |-> SumBefore(funds, FirstOver(funds, supply) + 1)])

\* Two entries that sum to exactly the token supply are accepted.
C11_WitnessExact ==
    /\ last.op = "receipt_new"
    /\ Len(funds) = 2
    /\ SumBefore(funds, 2) = protocol_parameters.token_supply
    /\ last.result.ok

\* Adding the second entry overflows u64: the error carries the exact sum.
C11_Witness ==
    /\ last.op = "receipt_new"
    /\ Len(funds) = 2
    /\ funds[1].amount <= protocol_parameters.token_supply
    /\ SumBefore(funds, 2) > U64_MAX
    /\ last.result = Err([kind |-> "InvalidReceiptFundsSum", sum |-> SumBefore(funds, 2)])

----------------------------------------------------------------------------
(* Properties of the ReceiptMilestoneOption values (under SpecReceipt). *)

\* The construction that produced the receipt.
Builder == IF last.op \in ReceiptAccessors THEN last.built_by ELSE last

\* The construction ran the verifiers: new, try_from_dto, the verifying decode.
VerifiedPath(b) ==
    \/ b.op \in {"receipt_new", "receipt_try_from_dto"}
    \/ b.op = "receipt_unpack" /\ b.verify

\* The funds invariants of receipt r under the token supply.
FundsInvariants(r, token_supply) ==
    /\ StrictlyIncreasing(r.funds)
    /\ RepeatPositions(r.funds) = {}
    /\ SumBefore(r.funds, Len(r.funds)) <= token_supply
    /\ SumBefore(r.funds, Len(r.funds)) <= U64_MAX

\* amount() was called and returned the sum of all entries.
AmountIsSum ==
    last.op = "receipt_amount" =>
        last.result = [value |-> SumBefore(Unwrap(receipt).funds, Len(Unwrap(receipt).funds))]

\* C12 as stated: every receipt any construction path produces satisfies the
\* funds invariants, and amount() is the sum of its entries.
C12_FundsInvariants ==
    IsSome(receipt) =>
        /\ FundsInvariants(Unwrap(receipt), protocol_parameters.token_supply)
        /\ AmountIsSum

\* C12 as amended: every receipt that new, try_from_dto or the verifying
\* decode produces satisfies the funds invariants and amount() is the sum of
\* its entries; a receipt of any path has 1 to 128 entries.
C12_FundsInvariantsVerified ==
    IsSome(receipt) =>
        /\ Len(Unwrap(receipt).funds) \in 1..128
        /\ VerifiedPath(Builder) =>
              /\ FundsInvariants(Unwrap(receipt), protocol_parameters.token_supply)
              /\ AmountIsSum

\* amount() of a receipt built from a DTO whose two entries sum to exactly
\* the token supply.
C12_Witness ==
    /\ last.op = "receipt_amount"
    /\ last.built_by.op = "receipt_try_from_dto"
    /\ Len(Unwrap(receipt).funds) = 2
    /\ last.result = [value |-> protocol_parameters.token_supply]

\* C13: transaction() never reaches unreachable!(): every receipt any
\* construction path produces embeds a treasury-transaction payload.
C13_TransactionIsTreasury ==
    /\ IsSome(receipt) => Unwrap(receipt).transaction.kind = TreasuryTransactionKind
    /\ last.op = "receipt_transaction" => last.result # [panic |-> "unreachable"]

----------------------------------------------------------------------------
(* The regular transaction essence: RegularTransactionEssenceBuilder and   *)
(* its finish.  Transaction ids, milestone ids and chain ids are one byte; *)
(* amounts are u64 values at the scale of U64_MAX.                         *)

\* The kind bytes of the inputs, of the outputs and of the payloads.
UtxoInput_KIND == 0
TreasuryInput_KIND == 1
TreasuryOutput_KIND == 2
BasicOutput_KIND == 3
AliasOutput_KIND == 4
FoundryOutput_KIND == 5
NftOutput_KIND == 6
TreasuryTransactionPayload_KIND == 4
MilestonePayload_KIND == 7

\* The inclusive range of the number of inputs and of outputs of an essence.
INPUT_COUNT_MIN == 1
INPUT_COUNT_MAX == 128
OUTPUT_COUNT_MIN == 1
OUTPUT_COUNT_MAX == 128

\* UtxoInput::new(id, index): the input is the OutputId it references, the
\* transaction id and the index of the output in that transaction.
UtxoInput_new(id, index) ==
    [kind |-> UtxoInput_KIND, output_id |-> [transaction_id |-> id, index |-> index]]

\* UtxoInput::output_id.
UtxoInput_output_id(self) == self.output_id

\* Input::Treasury(TreasuryInput::new(milestone_id)).
TreasuryInput_new(milestone_id) ==
    [kind |-> TreasuryInput_KIND, milestone_id |-> milestone_id]

\* The outputs: the kind, the amount and, for the three chain kinds, the id
\* (0 is the null id; the other kinds ignore the field).
Output(kind, amount, id) == [kind |-> kind, amount |-> amount, id |-> id]

\* Output::chain_id: Some(ChainId) of an alias, foundry or NFT output.
Output_chain_id(o) ==
    CASE o.kind = AliasOutput_KIND -> Some([kind |-> "Alias", id |-> o.id])
      [] o.kind = FoundryOutput_KIND -> Some([kind |-> "Foundry", id |-> o.id])
      [] o.kind = NftOutput_KIND -> Some([kind |-> "Nft", id |-> o.id])
      [] OTHER -> None

\* ChainId::is_null: the all-zero id that marks the creation of the chain.
ChainId_is_null(c) == c.id = 0

\* Payload::kind of the payloads that are not tagged data.
Payload_kind(p) ==
    CASE p.kind = TreasuryTransactionKind -> TreasuryTransactionPayload_KIND
      [] p.kind = "Milestone" -> MilestonePayload_KIND

\* The smallest element of a non-empty set of positions.
First(S) == CHOOSE i \in S : \A j \in S : i <= j

\* Rule 1: the input count lies in [1,128].  (The upper bound exclusive.)
InputCount_try_from_exclusive(n) ==
    IF n >= INPUT_COUNT_MIN /\ n < INPUT_COUNT_MAX THEN Ok(n)
    ELSE Err([kind |-> "InvalidInputCount", count |-> n])

InputCount_try_from(n) ==
    IF n >= INPUT_COUNT_MIN /\ n <= INPUT_COUNT_MAX THEN Ok(n)
    ELSE Err([kind |-> "InvalidInputCount", count |-> n])

\* Rule 2: the output count lies in [1,128].
OutputCount_try_from(n) ==
    IF n >= OUTPUT_COUNT_MIN /\ n <= OUTPUT_COUNT_MAX THEN Ok(n)
    ELSE Err([kind |-> "InvalidOutputCount", count |-> n])

\* Rule 3 comparing neighbours only.
verify_inputs_unique_adjacent(inputs) ==
    LET dup == {j \in 2..Len(inputs) :
                    /\ inputs[j].kind = UtxoInput_KIND
                    /\ inputs[j - 1] = inputs[j]}
    IN  IF dup = {} THEN Ok(TRUE)
        ELSE Err([kind |-> "DuplicateUtxo", utxo |-> inputs[First(dup)]])

\* Rule 3: no two inputs reference the same UTXO; the inputs are compared by
\* the OutputId they reference, and the first repetition is reported.
verify_inputs_unique(inputs) ==
    LET dup == {j \in 1..Len(inputs) :
                    /\ inputs[j].kind = UtxoInput_KIND
                    /\ \E i \in 1..(j - 1) :
                          /\ inputs[i].kind = UtxoInput_KIND
                          /\ UtxoInput_output_id(inputs[i]) = UtxoInput_output_id(inputs[j])}
    IN  IF dup = {} THEN Ok(TRUE)
        ELSE Err([kind |-> "DuplicateUtxo", utxo |-> inputs[First(dup)]])

\* Rule 4 letting every kind of input through.
verify_input_kinds_any(inputs) == Ok(TRUE)

\* Rule 4: every input is a UTXO reference.
verify_input_kinds(inputs) ==
    LET bad == {j \in 1..Len(inputs) : inputs[j].kind # UtxoInput_KIND}
    IN  IF bad = {} THEN Ok(TRUE)
        ELSE Err([kind |-> "InvalidInputKind", input_kind |-> inputs[First(bad)].kind])

\* Rule 5: every output is a basic, alias, foundry or NFT output.
verify_output_kinds(outputs) ==
    LET bad == {j \in 1..Len(outputs) :
                    outputs[j].kind \notin {BasicOutput_KIND, AliasOutput_KIND,
                                            FoundryOutput_KIND, NftOutput_KIND}}
    IN  IF bad = {} THEN Ok(TRUE)
        ELSE Err([kind |-> "InvalidOutputKind", output_kind |-> outputs[First(bad)].kind])

\* Rule 6 with an addition that wraps around u64.
verify_amount_sum_wrapping(outputs, token_supply) ==
    IF SumRange(outputs, 1, Len(outputs)) % (U64_MAX + 1) > token_supply
    THEN Err([kind |-> "InvalidTransactionAmountSum"])
    ELSE Ok(TRUE)

\* Rule 6: the sum of the output amounts is representable in u64 and does not
\* exceed the token supply.
verify_amount_sum(outputs, token_supply) ==
    LET total == SumRange(outputs, 1, Len(outputs))
    IN  IF total > U64_MAX \/ total > token_supply
        THEN Err([kind |-> "InvalidTransactionAmountSum"])
        ELSE Ok(TRUE)

\* Rule 7 without the exemption of the null id.
verify_output_chains_null_counted(outputs) ==
    LET dup == {j \in 1..Len(outputs) :
                    /\ IsSome(Output_chain_id(outputs[j]))
                    /\ \E i \in 1..(j - 1) :
                          Output_chain_id(outputs[i]) = Output_chain_id(outputs[j])}
    IN  IF dup = {} THEN Ok(TRUE)
        ELSE Err([kind |-> "DuplicateOutputChain",
                  chain_id |-> Unwrap(Output_chain_id(outputs[First(dup)]))])

\* Rule 7: no two outputs share a chain id that is not null; the first
\* repetition is reported with its chain id.
verify_output_chains(outputs) ==
    LET dup == {j \in 1..Len(outputs) :
                    /\ IsSome(Output_chain_id(outputs[j]))
                    /\ ~ChainId_is_null(Unwrap(Output_chain_id(outputs[j])))
                    /\ \E i \in 1..(j - 1) :
                          Output_chain_id(outputs[i]) = Output_chain_id(outputs[j])}
    IN  IF dup = {} THEN Ok(TRUE)
        ELSE Err([kind |-> "DuplicateOutputChain",
                  chain_id |-> Unwrap(Output_chain_id(outputs[First(dup)]))])

\* Rule 8 letting every kind of payload through.
verify_payload_any(payload_opt) == Ok(TRUE)

\* Rule 8: a payload, when there is one, is a tagged data payload.
verify_payload(payload_opt) ==
    IF IsSome(payload_opt) /\ Unwrap(payload_opt).kind # "TaggedData"
    THEN Err([kind |-> "InvalidPayloadKind", payload_kind |-> Payload_kind(Unwrap(payload_opt))])
    ELSE Ok(TRUE)

\* The rules of finish in their order; the result of the first that fails.
FirstFailure(results) ==
    LET failed == {k \in 1..Len(results) : ~results[k].ok}
    IN  IF failed = {} THEN Ok(TRUE) ELSE results[First(failed)]

\* finish with the duplicate inputs looked for before the counts are checked.
RegularTransactionEssenceBuilder_finish_unique_first(self, parameters) ==
    LET checked == FirstFailure(<<
            verify_inputs_unique(self.inputs),
            InputCount_try_from(Len(self.inputs)),
            OutputCount_try_from(Len(self.outputs)),
            verify_input_kinds(self.inputs),
            verify_output_kinds(self.outputs),
            verify_amount_sum(self.outputs, parameters.token_supply),
            verify_output_chains(self.outputs),
            verify_payload(self.payload)>>)
    IN  IF checked.ok
        THEN Ok([inputs |-> self.inputs, outputs |-> self.outputs, payload |-> self.payload])
        ELSE checked

\* RegularTransactionEssenceBuilder::finish(protocol_parameters).
RegularTransactionEssenceBuilder_finish(self, parameters) ==
    LET checked == FirstFailure(<<
            InputCount_try_from(Len(self.inputs)),
            OutputCount_try_from(Len(self.outputs)),
            verify_inputs_unique(self.inputs),
            verify_input_kinds(self.inputs),
            verify_output_kinds(self.outputs),
            verify_amount_sum(self.outputs, parameters.token_supply),
            verify_output_chains(self.outputs),
            verify_payload(self.payload)>>)
    IN  IF checked.ok
        THEN Ok([inputs |-> self.inputs, outputs |-> self.outputs, payload |-> self.payload])
        ELSE checked

----------------------------------------------------------------------------
(* The essences the builder is asked to finish. *)

\* Inputs: two outputs of one transaction, and a treasury input.
EssenceInputs == {UtxoInput_new(1, 0), UtxoInput_new(1, 1), TreasuryInput_new(1)}

\* n inputs that reference the outputs 0 to n - 1 of one transaction.
DistinctInputs(n) == [i \in 1..n |-> UtxoInput_new(1, i - 1)]

\* n copies of one input (vec![input; n]).
CopiedInputs(n) == [i \in 1..n |-> UtxoInput_new(1, 0)]

\* n distinct inputs but for the last, which repeats the first.
FirstRepeatedLast(n) == [i \in 1..n |-> UtxoInput_new(1, IF i = n THEN 0 ELSE i - 1)]

\* The long input lists: 128 and 129 distinct inputs, 129 copies of one input,
\* 128 inputs of which the last repeats the first.
LongInputLists ==
    {DistinctInputs(INPUT_COUNT_MAX), DistinctInputs(INPUT_COUNT_MAX + 1),
     CopiedInputs(INPUT_COUNT_MAX + 1), FirstRepeatedLast(INPUT_COUNT_MAX)}

\* Outputs: basic outputs of three amounts, NFT and alias outputs with the
\* null id and with id 1, a foundry output with id 1, a treasury output.
EssenceOutputs ==
    {Output(BasicOutput_KIND, a, 0) : a \in Amounts}
    \cup {Output(NftOutput_KIND, 20, 0), Output(NftOutput_KIND, 20, 1),
          Output(AliasOutput_KIND, 20, 0), Output(AliasOutput_KIND, 20, 1),
          Output(FoundryOutput_KIND, 20, 1),
          Output(TreasuryOutput_KIND, 20, 0)}

\* n copies of a basic output of amount 1 (vec![output; n]).
CopiedOutputs(n) == [i \in 1..n |-> Output(BasicOutput_KIND, 1, 0)]

\* n outputs of amount 1: basic outputs between two NFT outputs with one id.
NftFirstAndLast(n, id) ==
    [i \in 1..n |-> IF i \in {1, n} THEN Output(NftOutput_KIND, 1, id)
                    ELSE Output(BasicOutput_KIND, 1, 0)]

\* The long output lists: 128 and 129 copies of one output, 128 outputs of
\* which the first and the last are NFT outputs with the same id.
LongOutputLists ==
    {CopiedOutputs(OUTPUT_COUNT_MAX), CopiedOutputs(OUTPUT_COUNT_MAX + 1),
     NftFirstAndLast(OUTPUT_COUNT_MAX, 1), NftFirstAndLast(OUTPUT_COUNT_MAX, 0)}

\* No payload, a tagged data payload, or a payload of another kind.
EssencePayloads ==
    {None} \cup {Some([kind |-> k, body |-> 9]) : k \in PayloadKinds \cup {"Milestone"}}

\* The builders: short lists on both sides, or a long list on one side with
\* a list of at most one element or a long list on the other.
Builders ==
    [inputs : SeqsUpTo(EssenceInputs, MaxInputs),
     outputs : SeqsUpTo(EssenceOutputs, MaxOutputs),
     payload : EssencePayloads]
    \cup [inputs : LongInputLists,
          outputs : SeqsUpTo(EssenceOutputs, 1) \cup LongOutputLists,
          payload : EssencePayloads]
    \cup [inputs : SeqsUpTo(EssenceInputs, 1),
          outputs : LongOutputLists,
          payload : EssencePayloads]

InitEssence ==
    /\ builder \in Builders
    /\ regular_essence = None
    /\ protocol_parameters \in ReceiptParametersSet
    /\ MilestoneIdle
    /\ ReceiptIdle
    /\ UnpackIdle
    /\ AccountIdle
    /\ OperationIdle
    /\ WalletIdle
    /\ last = [op |-> "none"]

\* builder.finish(&protocol_parameters).
Finish ==
    /\ last.op = "none"
    /\ LET r == RegularTransactionEssenceBuilder_finish(builder, protocol_parameters)
       IN  /\ regular_essence' = IF r.ok THEN Some(r.value) ELSE None
           /\ last' = [op |-> "finish", result |-> r]
    /\ UNCHANGED <<operation_vars, wallet_vars, milestone_vars, protocol_parameters, receipt_vars, unpack_vars,
                   builder, account_vars>>

NextEssence ==
    \/ Finish

SpecEssence == InitEssence /\ [][NextEssence]_vars

----------------------------------------------------------------------------
(* Properties of RegularTransactionEssenceBuilder::finish (under           *)
(* SpecEssence).                                                           *)

\* finish has run on the builder.
Finished == last.op = "finish"

\* The rules that the lists of the builder meet, one by one.
InputCountInRange == Len(builder.inputs) \in 1..128
OutputCountInRange == Len(builder.outputs) \in 1..128
InputsUnique ==
    \A i, j \in 1..Len(builder.inputs) :
        (/\ i < j
         /\ builder.inputs[i].kind = UtxoInput_KIND
         /\ builder.inputs[j].kind = UtxoInput_KIND)
        => builder.inputs[i].output_id # builder.inputs[j].output_id
InputsAreUtxo == \A i \in 1..Len(builder.inputs) : builder.inputs[i].kind = UtxoInput_KIND
OutputsAreRegular ==
    \A i \in 1..Len(builder.outputs) :
        builder.outputs[i].kind \in {BasicOutput_KIND, AliasOutput_KIND,
                                     FoundryOutput_KIND, NftOutput_KIND}
OutputSum == SumRange(builder.outputs, 1, Len(builder.outputs))
OutputSumWithinSupply == OutputSum <= protocol_parameters.token_supply /\ OutputSum <= U64_MAX
ChainsUnique ==
    \A i, j \in 1..Len(builder.outputs) :
        (/\ i < j
         /\ builder.outputs[i].kind \in {AliasOutput_KIND, FoundryOutput_KIND, NftOutput_KIND}
         /\ builder.outputs[i].id # 0)
        => ~(/\ builder.outputs[i].kind = builder.outputs[j].kind
             /\ builder.outputs[i].id = builder.outputs[j].id)
PayloadIsTaggedData == IsSome(builder.payload) => Unwrap(builder.payload).kind = "TaggedData"

\* The inputs, the outputs of the builder meet all the rules made for them.
InputsValid == InputCountInRange /\ InputsUnique /\ InputsAreUtxo
OutputsValid ==
    OutputCountInRange /\ OutputsAreRegular /\ OutputSumWithinSupply /\ ChainsUnique

InputCountError(n) == Err([kind |-> "InvalidInputCount", count |-> n])
OutputCountError(n) == Err([kind |-> "InvalidOutputCount", count |-> n])
IsCountError(r) ==
    ~r.ok /\ r.error.kind \in {"InvalidInputCount", "InvalidOutputCount"}

\* C14 as stated: finish succeeds only if the number of inputs and the number
\* of outputs each lie in [1,128]; an input count outside it gives
\* InvalidInputCount with the count, an output count outside it gives
\* InvalidOutputCount with the count, and counts inside it are accepted.
C14_Counts ==
    Finished =>
        /\ last.result.ok => InputCountInRange /\ OutputCountInRange
        /\ ~InputCountInRange => last.result = InputCountError(Len(builder.inputs))
        /\ ~OutputCountInRange => last.result = OutputCountError(Len(builder.outputs))
        /\ (InputCountInRange /\ OutputCountInRange) => ~IsCountError(last.result)

\* C14 as amended: finish succeeds only if both counts lie in [1,128]; an
\* input count outside it gives InvalidInputCount with the count; an output
\* count outside it gives InvalidOutputCount with the count when the inputs
\* are acceptable (1 to 128 UTXO inputs, no two the same); counts inside the
\* range give no count error, and an essence that meets the other rules is
\* then built.
C14_CountsOfValidInputs ==
    Finished =>
        /\ last.result.ok => InputCountInRange /\ OutputCountInRange
        /\ ~InputCountInRange => last.result = InputCountError(Len(builder.inputs))
        /\ (~OutputCountInRange /\ InputsValid)
              => last.result = OutputCountError(Len(builder.outputs))
        /\ (InputCountInRange /\ OutputCountInRange) => ~IsCountError(last.result)
        /\ (InputsValid /\ OutputsValid /\ PayloadIsTaggedData) => last.result.ok

\* An essence of 128 inputs and 128 outputs is built.
C14_Witness ==
    /\ Finished
    /\ Len(builder.inputs) = 128
    /\ Len(builder.outputs) = 128
    /\ last.result.ok

\* 129 outputs after one good input are refused for their count.
C14_WitnessOutputs ==
    /\ Finished
    /\ Len(builder.inputs) = 1
    /\ last.result = OutputCountError(129)

\* The result is the error of the given kind.
FailedWith(kind) == ~last.result.ok /\ last.result.error.kind = kind

\* Input u occurs at two positions of the builder's input list.
OccursTwice(u) ==
    \E i, j \in 1..Len(builder.inputs) :
        i < j /\ builder.inputs[i] = u /\ builder.inputs[j] = u

\* No two UTXO inputs of the essence built reference the same OutputId.
BuiltInputsUnique ==
    IsSome(regular_essence) =>
        LET ins == Unwrap(regular_essence).inputs
        IN  \A i, j \in 1..Len(ins) :
                (i < j /\ ins[i].kind = UtxoInput_KIND /\ ins[j].kind = UtxoInput_KIND)
                => ins[i].output_id # ins[j].output_id

C15_WitnessIndex ==
    /\ Finished
    /\ builder.inputs = <<UtxoInput_new(1, 0), UtxoInput_new(1, 1)>>
    /\ last.result.ok

\* The essence built holds UTXO inputs only, basic, alias, foundry and NFT
\* outputs only, and no payload or a tagged data payload.
BuiltKinds ==
    IsSome(regular_essence) =>
        LET e == Unwrap(regular_essence)
        IN  /\ \A i \in 1..Len(e.inputs) : e.inputs[i].kind = UtxoInput_KIND
            /\ \A i \in 1..Len(e.outputs) :
                  e.outputs[i].kind \in {BasicOutput_KIND, AliasOutput_KIND,
                                         FoundryOutput_KIND, NftOutput_KIND}
            /\ IsSome(e.payload) => Unwrap(e.payload).kind = "TaggedData"

InputKindError == Err([kind |-> "InvalidInputKind", input_kind |-> 1])
OutputKindError == Err([kind |-> "InvalidOutputKind", output_kind |-> 2])
PayloadKindError(k) == Err([kind |-> "InvalidPayloadKind", payload_kind |-> k])

\* The kind byte of the builder's payload, which is not tagged data.
BuilderPayloadKind ==
    IF Unwrap(builder.payload).kind = TreasuryTransactionKind THEN 4 ELSE 7

\* C16 as stated: an essence built holds UTXO inputs, basic, alias, foundry
\* and NFT outputs and no payload or a tagged data payload only; a treasury
\* input is refused with InvalidInputKind(1), a treasury output with
\* InvalidOutputKind(2), a payload that is not tagged data with
\* InvalidPayloadKind and its kind.
C16_Kinds ==
    /\ BuiltKinds
    /\ Finished =>
          /\ ~InputsAreUtxo => last.result = InputKindError
          /\ ~OutputsAreRegular => last.result = OutputKindError
          /\ ~PayloadIsTaggedData => last.result = PayloadKindError(BuilderPayloadKind)

\* C16 as amended: an essence built holds UTXO inputs, basic, alias, foundry
\* and NFT outputs and no payload or a tagged data payload only; when no
\* other rule of the inputs and the outputs is broken, a treasury input is
\* refused with InvalidInputKind(1), a treasury output with
\* InvalidOutputKind(2), and a payload that is not tagged data with
\* InvalidPayloadKind and its kind.
C16_KindsOfValidRest ==
    /\ BuiltKinds
    /\ Finished =>
          /\ (~InputsAreUtxo /\ InputCountInRange /\ InputsUnique /\ OutputCountInRange)
                => last.result = InputKindError
          /\ (/\ ~OutputsAreRegular
              /\ InputsValid
              /\ OutputCountInRange /\ OutputSumWithinSupply /\ ChainsUnique)
                => last.result = OutputKindError
          /\ (~PayloadIsTaggedData /\ InputsValid /\ OutputsValid)
                => last.result = PayloadKindError(BuilderPayloadKind)

\* A good essence with a treasury transaction payload is refused for the
\* kind 4 of the payload.
C16_Witness ==
    /\ Finished
    /\ InputsValid /\ OutputsValid
    /\ IsSome(builder.payload)
    /\ Unwrap(builder.payload).kind = TreasuryTransactionKind
    /\ last.result = PayloadKindError(4)

\* A treasury input, a treasury output are refused for their kinds.
C16_WitnessInput ==
    /\ Finished
    /\ builder.inputs = <<TreasuryInput_new(1)>>
    /\ last.result = InputKindError
C16_WitnessOutput ==
    /\ Finished
    /\ builder.outputs = <<Output(TreasuryOutput_KIND, 20, 0)>>
    /\ last.result = OutputKindError

\* Each output of the builder is within the token supply on its own.
OutputsIndividuallyValid ==
    \A i \in 1..Len(builder.outputs) :
        builder.outputs[i].amount <= protocol_parameters.token_supply

\* C17 as stated: finish fails with InvalidTransactionAmountSum whenever the
\* sum of the output amounts exceeds the token supply or does not fit u64,
\* and the amounts do not make it fail when the sum is at most the token
\* supply, the token supply itself included.
C17_AmountSum ==
    Finished =>
        /\ ~OutputSumWithinSupply => FailedWith("InvalidTransactionAmountSum")
        /\ OutputSumWithinSupply => ~FailedWith("InvalidTransactionAmountSum")

\* C17 as amended: when the essence breaks no other rule of the inputs and
\* the outputs, finish fails with InvalidTransactionAmountSum whenever the sum
\* of the output amounts exceeds the token supply or does not fit u64, each
\* output being within the token supply or not; the amounts never make it
\* fail when the sum is at most the token supply, the token supply itself
\* included, and the essence is then built if it breaks no rule.
C17_AmountSumOfValidRest ==
    Finished =>
        /\ (/\ ~OutputSumWithinSupply
            /\ InputsValid
            /\ OutputCountInRange /\ OutputsAreRegular /\ ChainsUnique)
              => FailedWith("InvalidTransactionAmountSum")
        /\ OutputSumWithinSupply => ~FailedWith("InvalidTransactionAmountSum")
        /\ (/\ OutputSum = protocol_parameters.token_supply
            /\ InputsValid
            /\ OutputCountInRange /\ OutputsAreRegular /\ ChainsUnique
            /\ PayloadIsTaggedData)
              => last.result.ok

\* Two outputs, each within the token supply, with a sum that does not fit
\* u64, are refused for their sum.
C17_Witness ==
    /\ Finished
    /\ Len(builder.outputs) = 2
    /\ OutputsIndividuallyValid
    /\ OutputSum > U64_MAX
    /\ FailedWith("InvalidTransactionAmountSum")

\* Two outputs, each within the token supply, with a sum over it that fits
\* u64, are refused for their sum.
C17_WitnessSupply ==
    /\ Finished
    /\ OutputsIndividuallyValid
    /\ OutputSum > protocol_parameters.token_supply
    /\ OutputSum <= U64_MAX
    /\ FailedWith("InvalidTransactionAmountSum")

\* Outputs that sum to the token supply are built.
C17_WitnessExact ==
    /\ Finished
    /\ Len(builder.outputs) = 2
    /\ OutputSum = protocol_parameters.token_supply
    /\ last.result.ok

\* The chain kinds of the outputs, and the chain id named kind of id.
ChainKindOf(o) ==
    CASE o.kind = AliasOutput_KIND -> "Alias"
      [] o.kind = FoundryOutput_KIND -> "Foundry"
      [] o.kind = NftOutput_KIND -> "Nft"

\* Two outputs of the list carry the chain id c.
SharedByTwo(outputs, c) ==
    \E i, j \in 1..Len(outputs) :
        /\ i < j
        /\ outputs[i].kind \in {AliasOutput_KIND, FoundryOutput_KIND, NftOutput_KIND}
        /\ outputs[i].kind = outputs[j].kind
        /\ outputs[i].id = outputs[j].id
        /\ c = [kind |-> ChainKindOf(outputs[i]), id |-> outputs[i].id]

\* No two outputs of the essence built share a chain id that is not null.
BuiltChainsUnique ==
    IsSome(regular_essence) =>
        \A c \in [kind : {"Alias", "Foundry", "Nft"}, id : 1..2] :
            ~SharedByTwo(Unwrap(regular_essence).outputs, c)

\* C18 as stated: no essence built has two outputs with the same chain id
\* that is not null; two outputs with the same alias, NFT or foundry id that
\* is not null make finish fail with DuplicateOutputChain and that chain id;
\* outputs that share the null id do not.
C18_DuplicateChain ==
    /\ BuiltChainsUnique
    /\ Finished =>
          /\ ~ChainsUnique =>
                /\ FailedWith("DuplicateOutputChain")
                /\ SharedByTwo(builder.outputs, last.result.error.chain_id)
          /\ ChainsUnique => ~FailedWith("DuplicateOutputChain")

\* C18 as amended: no essence built has two outputs with the same chain id
\* that is not null; when the essence breaks no other rule of the inputs and
\* the outputs, two outputs with the same alias, NFT or foundry id that is not
\* null make finish fail with DuplicateOutputChain and a chain id, not null,
\* that two outputs share; outputs that share the null id do not.
C18_DuplicateChainOfValidRest ==
    /\ BuiltChainsUnique
    /\ Finished =>
          /\ (/\ ~ChainsUnique
              /\ InputsValid
              /\ OutputCountInRange /\ OutputsAreRegular /\ OutputSumWithinSupply)
                => /\ FailedWith("DuplicateOutputChain")
                   /\ last.result.error.chain_id.id # 0
                   /\ SharedByTwo(builder.outputs, last.result.error.chain_id)
          /\ ChainsUnique => ~FailedWith("DuplicateOutputChain")

\* Of 128 outputs the first and the last are NFT outputs with id 1, and
\* finish reports the chain id.
C18_Witness ==
    /\ Finished
    /\ builder.outputs = NftFirstAndLast(128, 1)
    /\ last.result = Err([kind |-> "DuplicateOutputChain",
                          chain_id |-> [kind |-> "Nft", id |-> 1]])

\* Two NFT outputs with the null id are built.
C18_WitnessNull ==
    /\ Finished
    /\ builder.outputs = <<Output(NftOutput_KIND, 20, 0), Output(NftOutput_KIND, 20, 0)>>
    /\ last.result.ok

\* The error of the first rule, in the documented order, that the builder
\* breaks; "none" when it breaks no rule.
FirstViolatedRule ==
    IF ~InputCountInRange THEN "InvalidInputCount"
    ELSE IF ~OutputCountInRange THEN "InvalidOutputCount"
    ELSE IF ~InputsUnique THEN "DuplicateUtxo"
    ELSE IF ~InputsAreUtxo THEN "InvalidInputKind"
    ELSE IF ~OutputsAreRegular THEN "InvalidOutputKind"
    ELSE IF ~OutputSumWithinSupply THEN "InvalidTransactionAmountSum"
    ELSE IF ~ChainsUnique THEN "DuplicateOutputChain"
    ELSE IF ~PayloadIsTaggedData THEN "InvalidPayloadKind"
    ELSE "none"

C19_WitnessOutputCount ==
    /\ Finished
    /\ InputCountInRange /\ ~InputsUnique
    /\ ~OutputCountInRange /\ ~PayloadIsTaggedData
    /\ last.result = OutputCountError(0)

----------------------------------------------------------------------------
(* The account's lookups of unspent outputs (wallet/account/mod.rs).       *)
(* An OutputId is one byte; so is a chain id, 0 being the null id.         *)

\* FilterOptions::default(): no field is set.
FilterOptions_default ==
    [lower_bound_booked_timestamp |-> None,
     upper_bound_booked_timestamp |-> None,
     output_types |-> None,
     alias_ids |-> None,
     foundry_ids |-> None,
     nft_ids |-> None]

\* AliasId::from(&output_id) / NftId::from(&output_id): the id that the chain
\* takes from the output that creates it (a hash; never the null id).
ChainId_from_output_id(output_id) == 16 + output_id

\* AliasOutput::alias_id_non_null / NftOutput::nft_id_non_null: the id of the
\* output, or the id derived from the output id when it is null.
id_non_null(id, output_id) ==
    IF id = 0 THEN ChainId_from_output_id(output_id) ELSE id

\* The match on the output at the head of the loop of filter_outputs: the
\* output is pushed at once when its id is among the ids asked for.
matches_ids(output, filter) ==
    CASE output.output.kind = AliasOutput_KIND ->
            /\ IsSome(filter.alias_ids)
            /\ id_non_null(output.output.id, output.output_id) \in Unwrap(filter.alias_ids)
      [] output.output.kind = FoundryOutput_KIND ->
            /\ IsSome(filter.foundry_ids)
            /\ output.output.id \in Unwrap(filter.foundry_ids)
      [] output.output.kind = NftOutput_KIND ->
            /\ IsSome(filter.nft_ids)
            /\ id_non_null(output.output.id, output.output_id) \in Unwrap(filter.nft_ids)
      [] OTHER -> FALSE

\* The rest of the loop body, reached when the output was not pushed by the
\* match: the bounds on the booked timestamp, the output types, then the push.
passes_rest(output, filter) ==
    /\ IsSome(filter.lower_bound_booked_timestamp) =>
          ~(output.metadata.milestone_timestamp_booked
                < Unwrap(filter.lower_bound_booked_timestamp))
    /\ IsSome(filter.upper_bound_booked_timestamp) =>
          ~(output.metadata.milestone_timestamp_booked
                > Unwrap(filter.upper_bound_booked_timestamp))
    /\ IsSome(filter.output_types) => output.output.kind \in Unwrap(filter.output_types)

\* AccountInner::filter_outputs(outputs, filter): the outputs, in the order of
\* the iterator, that the loop pushes.
filter_outputs(outputs, filter) ==
    LET Keep(output) ==
            \/ matches_ids(output, Unwrap(filter))
            \/ passes_rest(output, Unwrap(filter))
    IN  IF IsSome(filter) THEN Ok(SelectSeq(outputs, Keep)) ELSE Ok(outputs)

\* HashMap::values(): the values of the map in an order of the map's choosing.
HashMap_values(map) ==
    {order \in [1..Cardinality(map) -> map] :
        \A i, j \in 1..Cardinality(map) : i # j => order[i] # order[j]}

\* res.get(0).cloned()
get_0(res) == IF Len(res) > 0 THEN Some(res[1]) ELSE None

\* AccountInner::unspent_alias_output(alias_id), for an order of the values.
unspent_alias_output(values, alias_id) ==
    get_0(filter_outputs(values,
            Some([FilterOptions_default EXCEPT !.alias_ids = Some({alias_id})])).value)

\* AccountInner::unspent_foundry_output(foundry_id).
unspent_foundry_output(values, foundry_id) ==
    get_0(filter_outputs(values,
            Some([FilterOptions_default EXCEPT !.foundry_ids = Some({foundry_id})])).value)

\* AccountInner::unspent_nft_output(nft_id).
unspent_nft_output(values, nft_id) ==
    get_0(filter_outputs(values,
            Some([FilterOptions_default EXCEPT !.nft_ids = Some({nft_id})])).value)

\* The outputs an account may hold: basic, alias, NFT and foundry outputs.
AccountOutputKinds ==
    {Output(BasicOutput_KIND, 20, 0),
     Output(AliasOutput_KIND, 20, 0), Output(AliasOutput_KIND, 20, 1),
     Output(AliasOutput_KIND, 20, 2),
     Output(NftOutput_KIND, 20, 0), Output(NftOutput_KIND, 20, 1),
     Output(FoundryOutput_KIND, 20, 1)}

\* OutputData: the output, its id and its metadata.
OutputData(output_id, output) ==
    [output_id |-> output_id,
     output |-> output,
     metadata |-> [milestone_timestamp_booked |-> 5]]

\* The maps from OutputId to OutputData of at most MaxUnspent entries.
UnspentOutputMaps ==
    UNION {{ {OutputData(k, f[k]) : k \in ids} : f \in [ids -> AccountOutputKinds] } :
              ids \in SUBSET (1..MaxUnspent)}

\* The ids asked for: ids that outputs carry, and the id derived from output 1.
LookupIds == {1, 2, ChainId_from_output_id(1)}

InitAccount ==
    /\ unspent_outputs \in UnspentOutputMaps
    /\ protocol_parameters \in ReceiptParametersSet
    /\ MilestoneIdle
    /\ ReceiptIdle
    /\ UnpackIdle
    /\ BuilderIdle
    /\ OperationIdle
    /\ WalletIdle
    /\ last = [op |-> "none"]

\* account.unspent_alias_output(&alias_id).
UnspentAliasOutput ==
    /\ \E alias_id \in LookupIds, values \in HashMap_values(unspent_outputs) :
          last' = [op |-> "unspent_alias_output", id |-> alias_id,
                   result |-> unspent_alias_output(values, alias_id)]
    /\ UNCHANGED <<operation_vars, wallet_vars, milestone_vars, protocol_parameters, receipt_vars, unpack_vars,
                   builder_vars, account_vars>>

\* account.unspent_foundry_output(&foundry_id).
UnspentFoundryOutput ==
    /\ \E foundry_id \in LookupIds, values \in HashMap_values(unspent_outputs) :
          last' = [op |-> "unspent_foundry_output", id |-> foundry_id,
                   result |-> unspent_foundry_output(values, foundry_id)]
    /\ UNCHANGED <<operation_vars, wallet_vars, milestone_vars, protocol_parameters, receipt_vars, unpack_vars,
                   builder_vars, account_vars>>

\* account.unspent_nft_output(&nft_id).
UnspentNftOutput ==
    /\ \E nft_id \in LookupIds, values \in HashMap_values(unspent_outputs) :
          last' = [op |-> "unspent_nft_output", id |-> nft_id,
                   result |-> unspent_nft_output(values, nft_id)]
    /\ UNCHANGED <<operation_vars, wallet_vars, milestone_vars, protocol_parameters, receipt_vars, unpack_vars,
                   builder_vars, account_vars>>

NextAccount ==
    \/ UnspentAliasOutput
    \/ UnspentFoundryOutput
    \/ UnspentNftOutput

SpecAccount == InitAccount /\ [][NextAccount]_vars

----------------------------------------------------------------------------
(* Properties of the account's lookups (under SpecAccount). *)

\* The kind of output that a lookup is for.
LookupKind ==
    CASE last.op = "unspent_alias_output" -> AliasOutput_KIND
      [] last.op = "unspent_foundry_output" -> FoundryOutput_KIND
      [] last.op = "unspent_nft_output" -> NftOutput_KIND

\* Output o of the account is of kind k and carries the id, not null.
Carries(o, k, id) ==
    /\ o \in unspent_outputs
    /\ o.output.kind = k
    /\ id_non_null(o.output.id, o.output_id) = id

\* C20: unspent_alias_output(id), unspent_foundry_output(id) and
\* unspent_nft_output(id) return Some(o) only if o is an unspent output of
\* the account of that kind whose id, not null, is the id asked for, and None
\* when the account holds no such output, whatever else it holds.
C20_LookupMatches ==
    last.op \in {"unspent_alias_output", "unspent_foundry_output", "unspent_nft_output"} =>
        /\ IsSome(last.result) => Carries(Unwrap(last.result), LookupKind, last.id)
        /\ (\A o \in unspent_outputs : ~Carries(o, LookupKind, last.id))
              => last.result = None

----------------------------------------------------------------------------
(* The operations of an account that prepare a transaction                 *)
(* (sdk/src/wallet/account/operations). Addresses, token ids and event ids *)
(* are small integers; a token amount (U256) is an integer.                *)

\* largest number of unspent outputs of an account drawn output by output
MaxOwned == 2
\* NativeTokens::COUNT_MAX, 64 in the code, scaled down
NativeTokens_COUNT_MAX == 2

\* The default thresholds of wallet/account/constants.rs.
DEFAULT_OUTPUT_CONSOLIDATION_THRESHOLD == 100
DEFAULT_LEDGER_OUTPUT_CONSOLIDATION_THRESHOLD == 15

\* The sizes of the essence on a ledger (client/secret/ledger_nano.rs), in bytes.
ESSENCE_SIZE_WITHOUT_IN_AND_OUTPUTS == 49
MIN_OUTPUT_SIZE_IN_ESSENCE == 46
INPUT_SIZE == 43

\* The tag of a voting output.
PARTICIPATION_TAG == "PARTICIPATE"

\* UnlockConditions of an output: the address, and the optional conditions.
UnlockConditions(address, storage_deposit_return, timelock, expiration) ==
    [address |-> address,
     storage_deposit_return |-> storage_deposit_return,
     timelock |-> timelock,
     expiration |-> expiration]

\* The unlock conditions that hold an AddressUnlockCondition only.
AddressOnly(address) == UnlockConditions(address, None, None, None)

\* No native tokens; native tokens are a map from token id to amount.
NoTokens == [t \in {} |-> 0]

\* A basic output of the wallet.
BasicOutput(amount, native_tokens, unlock_conditions, tag, metadata) ==
    [kind |-> BasicOutput_KIND,
     amount |-> amount,
     native_tokens |-> native_tokens,
     unlock_conditions |-> unlock_conditions,
     features |-> [tag |-> tag, metadata |-> metadata]]

\* An alias, foundry or NFT output of the wallet, as far as consolidation reads it.
ChainOutput(kind, amount, address) ==
    [kind |-> kind,
     amount |-> amount,
     native_tokens |-> NoTokens,
     unlock_conditions |-> AddressOnly(address),
     features |-> [tag |-> None, metadata |-> None]]

\* OutputData of the wallet: the output, its id, the address it is associated
\* with, and the milestone it was booked in.
WalletOutputData(output_id, output, address) ==
    [output_id |-> output_id,
     output |-> output,
     address |-> address,
     metadata |-> [milestone_index_booked |-> output_id]]

\* UnlockConditions::is_time_locked(current_time).
is_time_locked(unlock_conditions, current_time) ==
    /\ IsSome(unlock_conditions.timelock)
    /\ current_time < Unwrap(unlock_conditions.timelock)

\* UnlockConditions::is_expired(current_time).
is_expired(unlock_conditions, current_time) ==
    /\ IsSome(unlock_conditions.expiration)
    /\ current_time >= Unwrap(unlock_conditions.expiration).timestamp

\* The address that has to unlock the output at current_time: the return
\* address of an expiration that has passed, the address otherwise.
required_address(unlock_conditions, current_time) ==
    IF is_expired(unlock_conditions, current_time)
    THEN Unwrap(unlock_conditions.expiration).return_address
    ELSE unlock_conditions.address

\* can_output_be_unlocked_now(account_addresses, &[], output_data, current_time, None).
can_output_be_unlocked_now(account_addresses, output_data, current_time) ==
    IF is_time_locked(output_data.output.unlock_conditions, current_time)
    THEN Ok(FALSE)
    ELSE Ok(required_address(output_data.output.unlock_conditions, current_time)
              \in account_addresses)

\* should_consolidate_output without the branch of the storage deposit return.
should_consolidate_output_with_return(output_data, current_time, account_addresses) ==
    IF output_data.output.kind = BasicOutput_KIND
    THEN can_output_be_unlocked_now(account_addresses, output_data, current_time)
    ELSE Ok(FALSE)

\* Account::should_consolidate_output(output_data, current_time, account_addresses).
should_consolidate_output(output_data, current_time, account_addresses) ==
    IF output_data.output.kind = BasicOutput_KIND
    THEN LET unlock_conditions == output_data.output.unlock_conditions
             has_storage_deposit_return == IsSome(unlock_conditions.storage_deposit_return)
             has_expiration == IsSome(unlock_conditions.expiration)
         IN  IF is_time_locked(unlock_conditions, current_time)
             THEN Ok(FALSE)
             ELSE IF has_storage_deposit_return
                       /\ (~has_expiration \/ ~is_expired(unlock_conditions, current_time))
                  THEN Ok(FALSE)
                  ELSE can_output_be_unlocked_now(account_addresses, output_data, current_time)
    ELSE Ok(FALSE)

\* is_valid_participation_output(output): a basic output with the tag of a vote.
is_valid_participation_output(output) ==
    /\ output.kind = BasicOutput_KIND
    /\ output.features.tag = Some(PARTICIPATION_TAG)

\* Account::get_voting_output(): of the unspent outputs that are votes, the one
\* booked last.
get_voting_output(details) ==
    LET votes == {o \in details.unspent_outputs : is_valid_participation_output(o.output)}
    IN  IF votes = {} THEN None
        ELSE Some(CHOOSE o \in votes : \A p \in votes :
                      p.metadata.milestone_index_booked <= o.metadata.milestone_index_booked)

\* get_new_native_token_count(builder, native_tokens): the number of token ids
\* once native_tokens are added to the builder.
get_new_native_token_count(total_native_tokens, native_tokens) ==
    Cardinality(DOMAIN total_native_tokens \union DOMAIN native_tokens)

\* NativeTokensBuilder::add_native_tokens(native_tokens): amounts of one token
\* add up (the sums are taken at once: @@ of the map with itself is the map).
add_native_tokens(total_native_tokens, native_tokens) ==
    LET added == [t \in DOMAIN total_native_tokens \union DOMAIN native_tokens |->
                    (IF t \in DOMAIN total_native_tokens THEN total_native_tokens[t] ELSE 0)
                  + (IF t \in DOMAIN native_tokens THEN native_tokens[t] ELSE 0)]
    IN  added @@ added

\* The outputs the scan of unspent_outputs() pushes to outputs_to_consolidate,
\* in the order of the iterator.
outputs_to_consolidate(details, values, voting_output, current_time) ==
    LET Push(output_data) ==
            /\ ~(IsSome(voting_output)
                   /\ output_data.output_id = Unwrap(voting_output).output_id)
            /\ output_data.output_id \notin details.locked_outputs
            /\ should_consolidate_output(output_data, current_time, details.addresses).value
    IN  SelectSeq(values, Push)

\* The limit on inputs that the secret manager sets.
max_inputs(manager) ==
    IF manager.kind = "LedgerNano"
    THEN IF manager.status.blind_signing_enabled
         THEN INPUT_COUNT_MAX
         ELSE IF IsSome(manager.status.buffer_size)
              THEN (Unwrap(manager.status.buffer_size)
                        - ESSENCE_SIZE_WITHOUT_IN_AND_OUTPUTS - MIN_OUTPUT_SIZE_IN_ESSENCE)
                     \div INPUT_SIZE
              ELSE INPUT_COUNT_MAX
    ELSE INPUT_COUNT_MAX

\* iter().take(n)
take(s, n) == SubSeq(s, 1, IF n < Len(s) THEN n ELSE Len(s))

\* A round of the loop with the amount added before the tokens are counted.
add_output_amount_first(acc, output_data) ==
    IF get_new_native_token_count(acc.total_native_tokens, output_data.output.native_tokens)
           > NativeTokens_COUNT_MAX
    THEN [acc EXCEPT !.total_amount = @ + output_data.output.amount]
    ELSE [total_amount |-> acc.total_amount + output_data.output.amount,
          custom_inputs |-> Append(acc.custom_inputs, output_data.output_id),
          total_native_tokens |->
              add_native_tokens(acc.total_native_tokens, output_data.output.native_tokens)]

\* A round of the loop over the outputs to consolidate: an output whose tokens
\* would take the count over NativeTokens::COUNT_MAX is passed over, any other
\* adds its tokens and its amount and becomes an input.
add_output(acc, output_data) ==
    IF get_new_native_token_count(acc.total_native_tokens, output_data.output.native_tokens)
           > NativeTokens_COUNT_MAX
    THEN acc
    ELSE [total_amount |-> acc.total_amount + output_data.output.amount,
          custom_inputs |-> Append(acc.custom_inputs, output_data.output_id),
          total_native_tokens |->
              add_native_tokens(acc.total_native_tokens, output_data.output.native_tokens)]

\* The rounds lo..hi of the loop, from the totals acc (by halves, the rounds
\* in their order: the totals of the first half, which has at most mid
\* inputs, are there before the second half starts).
RECURSIVE accumulate_from(_, _, _, _)
accumulate_from(acc, outputs, lo, hi) ==
    IF lo > hi THEN acc
    ELSE IF lo = hi THEN add_output(acc, outputs[lo])
    ELSE LET mid == (lo + hi) \div 2
             first == accumulate_from(acc, outputs, lo, mid)
         IN  IF Len(first.custom_inputs) <= mid
             THEN accumulate_from(first, outputs, mid + 1, hi)
             ELSE first

\* The loop over the outputs to consolidate, after its first n rounds: the
\* total amount, the inputs and the native tokens.
accumulate(outputs, n) ==
    accumulate_from([total_amount |-> 0, custom_inputs |-> <<>>,
                     total_native_tokens |-> NoTokens], outputs, 1, n)

\* BasicOutputBuilder::finish_output(token_supply): the amount is not zero and
\* within the supply, the native tokens within their count.
finish_output(output, token_supply) ==
    IF output.amount = 0 \/ output.amount > token_supply
    THEN Err([kind |-> "InvalidOutputAmount", amount |-> output.amount])
    ELSE IF Cardinality(DOMAIN output.native_tokens) > NativeTokens_COUNT_MAX
         THEN Err([kind |-> "InvalidNativeTokenCount",
                   count |-> Cardinality(DOMAIN output.native_tokens)])
         ELSE Ok(output)

\* Account::prepare_transaction(outputs, options) with custom inputs: the
\* custom inputs are the inputs, and none of them may be in use already.
prepare_transaction(details, outputs, options) ==
    IF \E i \in 1..Len(options.custom_inputs) :
           options.custom_inputs[i] \in details.locked_outputs
    THEN Err([kind |-> "CustomInput"])
    ELSE Ok([inputs |-> options.custom_inputs, outputs |-> outputs])

\* The account once the transaction is prepared: its inputs are locked.
lock_inputs(details, prepared) ==
    IF prepared.ok
    THEN [details EXCEPT !.locked_outputs = @ \union Range(prepared.value.inputs)]
    ELSE details

\* The threshold with the default of the ledger for every secret manager.
consolidation_threshold_of_ledger(manager, output_consolidation_threshold) ==
    IF IsSome(output_consolidation_threshold)
    THEN Unwrap(output_consolidation_threshold)
    ELSE DEFAULT_LEDGER_OUTPUT_CONSOLIDATION_THRESHOLD

\* The threshold in force: the caller's, or the default for the secret manager.
consolidation_threshold(manager, output_consolidation_threshold) ==
    IF IsSome(output_consolidation_threshold)
    THEN Unwrap(output_consolidation_threshold)
    ELSE IF manager.kind = "LedgerNano"
         THEN DEFAULT_LEDGER_OUTPUT_CONSOLIDATION_THRESHOLD
         ELSE DEFAULT_OUTPUT_CONSOLIDATION_THRESHOLD

\* Account::prepare_consolidate_outputs(force, output_consolidation_threshold),
\* for an order of unspent_outputs(), the time and the token supply of the node.
prepare_consolidate_outputs(details, manager, values, force, output_consolidation_threshold, current_time, token_supply) ==
    LET voting_output == get_voting_output(details)
        to_consolidate == outputs_to_consolidate(details, values, voting_output, current_time)
        threshold == consolidation_threshold(manager, output_consolidation_threshold)
        acc == accumulate(take(to_consolidate, max_inputs(manager)),
                          Len(take(to_consolidate, max_inputs(manager))))
        consolidation_output ==
            finish_output(BasicOutput(acc.total_amount, acc.total_native_tokens,
                                      AddressOnly(to_consolidate[1].address), None, None),
                          token_supply)
    IN  IF Len(to_consolidate) = 0 \/ (~force /\ Len(to_consolidate) < threshold)
        THEN Err([kind |-> "NoOutputsToConsolidate",
                  available_outputs |-> Len(to_consolidate),
                  consolidation_threshold |-> threshold])
        ELSE IF ~consolidation_output.ok
             THEN consolidation_output
             ELSE prepare_transaction(details, <<consolidation_output.value>>,
                                      [custom_inputs |-> acc.custom_inputs])

----------------------------------------------------------------------------
(* The state machine of the consolidation: an account, a secret manager    *)
(* and a node, and one call of prepare_consolidate_outputs.                *)

\* The address of the account and an address of somebody else.
OwnAddress == 1
OtherAddress == 2

\* A timestamp between the two times the node may report.
Deadline == 20

\* The kinds of output the account may hold, for the consolidation.
ConsolidationMenu ==
    << BasicOutput(10, NoTokens, AddressOnly(OwnAddress), None, None),
       BasicOutput(10, (1 :> 5) @@ (2 :> 5), AddressOnly(OwnAddress), None, None),
       BasicOutput(20, (3 :> 5), AddressOnly(OwnAddress), None, None),
       BasicOutput(10, NoTokens,
                   UnlockConditions(OwnAddress, None, Some(Deadline), None), None, None),
       BasicOutput(10, NoTokens,
                   UnlockConditions(OwnAddress,
                       Some([return_address |-> OtherAddress, amount |-> 5]), None, None),
                   None, None),
       BasicOutput(10, NoTokens,
                   UnlockConditions(OtherAddress,
                       Some([return_address |-> OwnAddress, amount |-> 5]), None,
                       Some([return_address |-> OwnAddress, timestamp |-> Deadline])),
                   None, None),
       BasicOutput(10, NoTokens,
                   UnlockConditions(OwnAddress, None, None,
                       Some([return_address |-> OtherAddress, timestamp |-> Deadline])),
                   None, None),
       BasicOutput(10, NoTokens, AddressOnly(OwnAddress), Some(PARTICIPATION_TAG), Some(<<>>)),
       ChainOutput(AliasOutput_KIND, 10, OwnAddress),
       ChainOutput(FoundryOutput_KIND, 10, OwnAddress),
       ChainOutput(NftOutput_KIND, 10, OwnAddress) >>

\* The unspent outputs of an account that holds the kinds picked by f, a map
\* from output ids to the menu.
Holding(menu, f) ==
    {WalletOutputData(k, menu[f[k]], OwnAddress) : k \in DOMAIN f}

\* The accounts of at most n outputs of the menu, each combination of kinds once.
AccountsOver(menu, n) ==
    UNION {{Holding(menu, f) : f \in {g \in [1..k -> 1..Len(menu)] :
                                          \A i \in 1..(k - 1) : g[i] <= g[i + 1]}} :
              k \in 0..n}

\* An account of n outputs that hold an address only, of amount 1 each.
ManyOutputs(n) ==
    {WalletOutputData(k, BasicOutput(1, NoTokens, AddressOnly(OwnAddress), None, None),
                      OwnAddress) : k \in 1..n}

\* The accounts with more outputs than a transaction has inputs, and with a
\* number of outputs between the default thresholds.
LargeAccounts ==
    {ManyOutputs(INPUT_COUNT_MAX + 2), ManyOutputs(DEFAULT_LEDGER_OUTPUT_CONSOLIDATION_THRESHOLD)}

\* The outputs of a large account by ascending output id.
Ascending(map) ==
    [i \in 1..Cardinality(map) |-> CHOOSE o \in map : o.output_id = i]

\* The outputs of a large account by descending output id.
Descending(map) ==
    [i \in 1..Cardinality(map) |-> CHOOSE o \in map : o.output_id = Cardinality(map) + 1 - i]

\* The orders in which unspent_outputs() is iterated: any order of a small
\* map, two orders of a large one.
IterationOrders(map) ==
    IF Cardinality(map) <= MaxOwned + 1
    THEN HashMap_values(map)
    ELSE {Ascending(map), Descending(map)}

\* The sets of outputs in use by a pending transaction: none or one of a
\* small map, none or the first of a large one.
LockedSets(map) ==
    IF Cardinality(map) <= MaxOwned + 1
    THEN {{}} \union {{o.output_id} : o \in map}
    ELSE {{}, {1}}

\* The secret managers: a mnemonic, a ledger with blind signing, and a ledger
\* without, with a buffer for one input next to the rest of the essence.
SecretManagers ==
    {[kind |-> "Mnemonic"],
     [kind |-> "LedgerNano",
      status |-> [blind_signing_enabled |-> TRUE, buffer_size |-> None]],
     [kind |-> "LedgerNano",
      status |-> [blind_signing_enabled |-> FALSE,
                  buffer_size |-> Some(ESSENCE_SIZE_WITHOUT_IN_AND_OUTPUTS
                                         + MIN_OUTPUT_SIZE_IN_ESSENCE + INPUT_SIZE + 10)]]}

\* The times the node may report.
NodeTimes == {10, 30}

\* The thresholds a caller may pass.
ConsolidationThresholds == {None, Some(2)}

InitConsolidate ==
    /\ \E outputs \in AccountsOver(ConsolidationMenu, MaxOwned) \union LargeAccounts :
         \E locked \in LockedSets(outputs) :
            account_details = [unspent_outputs |-> outputs,
                               locked_outputs |-> locked,
                               addresses |-> {OwnAddress}]
    /\ secret_manager \in SecretManagers
    /\ node \in [time : NodeTimes]
    /\ prepared_transaction = None
    /\ protocol_parameters = [protocol_version |-> 2, token_supply |-> U64_MAX]
    /\ MilestoneIdle
    /\ ReceiptIdle
    /\ UnpackIdle
    /\ BuilderIdle
    /\ AccountIdle
    /\ WalletIdle
    /\ last = [op |-> "none"]

\* account.prepare_consolidate_outputs(force, output_consolidation_threshold).
PrepareConsolidateOutputs ==
    /\ last.op = "none"
    /\ \E force \in BOOLEAN, threshold \in ConsolidationThresholds,
          values \in IterationOrders(account_details.unspent_outputs) :
          LET result == prepare_consolidate_outputs(account_details, secret_manager,
                            values, force, threshold, node.time,
                            protocol_parameters.token_supply)
          IN  /\ prepared_transaction' = IF result.ok THEN Some(result.value) ELSE None
              /\ account_details' = lock_inputs(account_details, result)
              /\ last' = [op |-> "prepare_consolidate_outputs",
                          force |-> force,
                          output_consolidation_threshold |-> threshold,
                          values |-> values,
                          before |-> account_details,
                          result |-> result]
    /\ UNCHANGED <<milestone_vars, protocol_parameters, receipt_vars, unpack_vars,
                   builder_vars, account_vars, secret_manager, node, wallet_vars>>

NextConsolidate ==
    \/ PrepareConsolidateOutputs

SpecConsolidate == InitConsolidate /\ [][NextConsolidate]_vars

----------------------------------------------------------------------------
(* Properties of the consolidation (under SpecConsolidate). *)

\* prepare_consolidate_outputs has returned.
Consolidated == last.op = "prepare_consolidate_outputs"

\* It has returned a prepared transaction.
ConsolidationPrepared == Consolidated /\ last.result.ok

\* The ids of the inputs of the prepared transaction.
PreparedInputs == Range(Unwrap(prepared_transaction).inputs)

\* The outputs the account held when the call was made that became inputs.
ConsolidatedOutputs ==
    LET inputs == PreparedInputs
    IN  {o \in last.before.unspent_outputs : o.output_id \in inputs}

\* The output has no unlock condition but the address.
HasAddressOnly(output) ==
    /\ output.unlock_conditions.storage_deposit_return = None
    /\ output.unlock_conditions.timelock = None
    /\ output.unlock_conditions.expiration = None

\* The expiration of the output has passed at time t.
ExpirationPassed(output, t) ==
    /\ output.unlock_conditions.expiration # None
    /\ output.unlock_conditions.expiration[1].timestamp <= t

\* The account can unlock the output at time t: no timelock is ahead, and the
\* address to unlock with (the return address once the expiration has
\* passed) is an address of the account.
UnlockableAt(output, t, addresses) ==
    /\ output.unlock_conditions.timelock # None => output.unlock_conditions.timelock[1] <= t
    /\ IF ExpirationPassed(output, t)
       THEN output.unlock_conditions.expiration[1].return_address \in addresses
       ELSE output.unlock_conditions.address \in addresses

C21_WitnessReturn ==
    /\ ConsolidationPrepared
    /\ \E o \in ConsolidatedOutputs :
          /\ o.output.unlock_conditions.storage_deposit_return # None
          /\ o.output.unlock_conditions.expiration # None

\* C21 witness: an output with an expiration still ahead is an input.
C21_WitnessExpiration ==
    /\ ConsolidationPrepared
    /\ \E o \in ConsolidatedOutputs :
          /\ o.output.unlock_conditions.expiration # None
          /\ ~ExpirationPassed(o.output, node.time)

\* The outputs the account held when the call was made that were eligible:
\* unspent basic outputs, not in use and not the voting output, that are not
\* time-locked, need not return a storage deposit and can be unlocked by the
\* account at the time of the node.
EligibleOutputs ==
    LET voting_output == get_voting_output(last.before)
    IN  {o \in last.before.unspent_outputs :
            /\ o.output.kind = BasicOutput_KIND
            /\ o.output_id \notin last.before.locked_outputs
            /\ Some(o) # voting_output
            /\ o.output.unlock_conditions.storage_deposit_return # None
                  => ExpirationPassed(o.output, node.time)
            /\ UnlockableAt(o.output, node.time, last.before.addresses)}

\* The threshold of the call: the caller's value, else the default for the
\* secret manager.
ThresholdOfCall ==
    IF last.output_consolidation_threshold # None
    THEN last.output_consolidation_threshold[1]
    ELSE IF secret_manager.kind = "LedgerNano"
         THEN DEFAULT_LEDGER_OUTPUT_CONSOLIDATION_THRESHOLD
         ELSE DEFAULT_OUTPUT_CONSOLIDATION_THRESHOLD

\* The call has failed with NoOutputsToConsolidate.
NoOutputsToConsolidate ==
    /\ Consolidated
    /\ ~last.result.ok
    /\ last.result.error.kind = "NoOutputsToConsolidate"

\* C22: prepare_consolidate_outputs returns NoOutputsToConsolidate, with the
\* number of eligible outputs and the threshold, exactly when no output is
\* eligible, or force is false and the eligible outputs are fewer than the
\* threshold (the caller's, else the default for the secret manager); with
\* force the threshold is ignored; on this error no transaction is prepared
\* and no output is locked.
C22_NoOutputsToConsolidate ==
    Consolidated =>
      LET available == Cardinality(EligibleOutputs)
      IN  /\ NoOutputsToConsolidate
                <=> (available = 0 \/ (~last.force /\ available < ThresholdOfCall))
          /\ NoOutputsToConsolidate =>
                /\ last.result.error.available_outputs = available
                /\ last.result.error.consolidation_threshold = ThresholdOfCall
                /\ prepared_transaction = None
                /\ account_details = last.before
          /\ (last.force /\ available >= 1) => last.result.ok

\* C22 witness: without force, eligible outputs fewer than the threshold of
\* the caller are refused.
C22_Witness ==
    /\ NoOutputsToConsolidate
    /\ ~last.force
    /\ last.output_consolidation_threshold # None
    /\ Cardinality(EligibleOutputs) >= 1

\* C22 witness: with force one eligible output is consolidated, below the threshold.
C22_WitnessForce ==
    /\ ConsolidationPrepared
    /\ last.force
    /\ Cardinality(EligibleOutputs) = 1
    /\ ThresholdOfCall > 1

\* C22 witness: the default of the ledger lets through, without force, what
\* the default of the other secret managers refuses.
C22_WitnessDefault ==
    /\ ConsolidationPrepared
    /\ ~last.force
    /\ last.output_consolidation_threshold = None
    /\ Cardinality(EligibleOutputs) < DEFAULT_OUTPUT_CONSOLIDATION_THRESHOLD

\* The inputs of the prepared transaction, as the outputs they spend.
ConsolidatedInOrder ==
    LET inputs == Unwrap(prepared_transaction).inputs
    IN  [i \in 1..Len(inputs) |->
            CHOOSE o \in last.before.unspent_outputs : o.output_id = inputs[i]]

\* The sum of the amounts of the outputs lo..hi of a sequence (by halves).
RECURSIVE AmountOfRange(_, _, _)
AmountOfRange(outputs, lo, hi) ==
    IF lo > hi THEN 0
    ELSE IF lo = hi THEN outputs[lo].output.amount
    ELSE LET mid == (lo + hi) \div 2
         IN  AmountOfRange(outputs, lo, mid) + AmountOfRange(outputs, mid + 1, hi)

\* What output o holds of token t.
Holds(o, t) ==
    IF t \in DOMAIN o.output.native_tokens THEN o.output.native_tokens[t] ELSE 0

\* The sum of the amounts of token t in the outputs lo..hi of a sequence.
RECURSIVE TokenAmountOfRange(_, _, _, _)
TokenAmountOfRange(outputs, t, lo, hi) ==
    IF lo > hi THEN 0
    ELSE IF lo = hi THEN Holds(outputs[lo], t)
    ELSE LET mid == (lo + hi) \div 2
         IN  TokenAmountOfRange(outputs, t, lo, mid)
               + TokenAmountOfRange(outputs, t, mid + 1, hi)

\* The token ids that a set of outputs holds.
TokenIdsOf(outputs) == UNION {DOMAIN o.output.native_tokens : o \in outputs}

\* C28: the consolidation conserves value over exactly its inputs: at most
\* INPUT_COUNT_MAX output ids are inputs, none of them in locked_outputs or
\* time-locked when the outputs were scanned; the one output of the
\* transaction has the sum of the inputs' amounts and, token by token, the sum
\* of their native tokens, of at most NativeTokens::COUNT_MAX tokens; an output
\* passed over for its tokens adds to none of these.
C28_ValueConserved ==
    ConsolidationPrepared =>
      LET consolidated == ConsolidatedOutputs
          in_order == ConsolidatedInOrder
          tokens == TokenIdsOf(consolidated)
          tx == Unwrap(prepared_transaction)
      IN  /\ Len(tx.inputs) <= INPUT_COUNT_MAX
          /\ Cardinality(consolidated) = Len(tx.inputs)
          /\ \A o \in consolidated :
                /\ o.output_id \notin last.before.locked_outputs
                /\ o.output.unlock_conditions.timelock # None
                      => o.output.unlock_conditions.timelock[1] <= node.time
          /\ Len(tx.outputs) = 1
          /\ tx.outputs[1].amount = AmountOfRange(in_order, 1, Len(in_order))
          /\ DOMAIN tx.outputs[1].native_tokens = tokens
          /\ \A t \in tokens :
                tx.outputs[1].native_tokens[t]
                    = TokenAmountOfRange(in_order, t, 1, Len(in_order))
          /\ Cardinality(tokens) <= NativeTokens_COUNT_MAX
          /\ account_details.locked_outputs
                 = last.before.locked_outputs \union Range(tx.inputs)

\* C28 witness: an eligible output is passed over for its tokens.
C28_Witness ==
    /\ ConsolidationPrepared
    /\ LET consolidated == ConsolidatedOutputs
       IN  \E o \in EligibleOutputs \ consolidated :
              Cardinality(TokenIdsOf(consolidated \union {o})) > NativeTokens_COUNT_MAX

\* C28 witness: of more eligible outputs than INPUT_COUNT_MAX, that many are inputs.
C28_WitnessMax ==
    /\ ConsolidationPrepared
    /\ Len(Unwrap(prepared_transaction).inputs) = INPUT_COUNT_MAX
    /\ Cardinality(EligibleOutputs) > INPUT_COUNT_MAX

\* C28 witness: the amounts of one token in two inputs add up.
C28_WitnessMerged ==
    /\ ConsolidationPrepared
    /\ \E o \in ConsolidatedOutputs : \E t \in DOMAIN o.output.native_tokens :
          o.output.native_tokens[t] < Unwrap(prepared_transaction).outputs[1].native_tokens[t]

----------------------------------------------------------------------------
(* Voting (sdk/src/wallet/account/operations/participation/voting.rs). The *)
(* metadata of the voting output holds the participations as bytes: their  *)
(* number, then of each the event id (one byte here), the number of        *)
(* answers and the answers.                                                *)

\* most participations a voting output is drawn with
MaxParticipations == 2
\* MetadataFeature: the most bytes of metadata, 8192 in the code, scaled down
MetadataFeature_LENGTH_MAX == 7

\* Participation { event_id, answers }
Participation(event_id, answers) == [event_id |-> event_id, answers |-> answers]

\* The bytes of the participations lo..hi, one after the other.
RECURSIVE participation_bytes(_, _, _)
participation_bytes(participations, lo, hi) ==
    IF lo > hi THEN <<>>
    ELSE <<participations[lo].event_id, Len(participations[lo].answers)>>
            \o participations[lo].answers
            \o participation_bytes(participations, lo + 1, hi)

\* Participations::to_bytes()
Participations_to_bytes(participations) ==
    Ok(<<Len(participations)>> \o participation_bytes(participations, 1, Len(participations)))

\* Reads count participations from position pos of the bytes.
RECURSIVE read_participations(_, _, _)
read_participations(bytes, pos, count) ==
    IF count = 0 THEN Ok(<<>>)
    ELSE IF pos + 1 > Len(bytes) \/ pos + 1 + bytes[pos + 1] > Len(bytes)
    THEN Err([kind |-> "Io"])
    ELSE LET answers == SubSeq(bytes, pos + 2, pos + 1 + bytes[pos + 1])
             rest == read_participations(bytes, pos + 2 + bytes[pos + 1], count - 1)
         IN  IF rest.ok
             THEN Ok(<<Participation(bytes[pos], answers)>> \o rest.value)
             ELSE rest

\* Participations::from_bytes(bytes)
Participations_from_bytes(bytes) ==
    IF Len(bytes) = 0 THEN Err([kind |-> "Io"])
    ELSE read_participations(bytes, 2, bytes[1])

\* Participations::remove(event_id)
Participations_remove(participations, event_id) ==
    LET Other(p) == p.event_id # event_id
    IN  SelectSeq(participations, Other)

\* Participations::add_or_replace(participation): the participation takes the
\* place of the one for its event, or is added when there is none.
Participations_add_or_replace(participations, participation) ==
    IF \E i \in 1..Len(participations) :
           participations[i].event_id = participation.event_id
    THEN LET i == CHOOSE j \in 1..Len(participations) :
                      /\ participations[j].event_id = participation.event_id
                      /\ \A k \in 1..(j - 1) :
                            participations[k].event_id # participation.event_id
         IN  [participations EXCEPT ![i] = participation]
    ELSE Append(participations, participation)

\* Account::remove_ended_participation_events(participations): the
\* participations in events that have ended are removed.
remove_ended_participation_events(participations, events) ==
    LET Running(p) == events[p.event_id] # "ended"
    IN  SelectSeq(participations, Running)

\* MetadataFeature::new(data)
MetadataFeature_new(data) ==
    IF Len(data) >= 1 /\ Len(data) <= MetadataFeature_LENGTH_MAX
    THEN Ok(data)
    ELSE Err([kind |-> "InvalidMetadataFeatureLength", length |-> Len(data)])

\* The end of prepare_vote and of prepare_stop_participating: the voting output
\* with the participations as its metadata, and the transaction that spends
\* the voting output only.
prepare_voting_transaction(details, voting_output, participations, token_supply) ==
    LET bytes == Participations_to_bytes(participations)
        metadata == MetadataFeature_new(bytes.value)
        new_output ==
            finish_output([voting_output.output EXCEPT
                              !.features = [tag |-> Some(PARTICIPATION_TAG),
                                            metadata |-> Some(metadata.value)]],
                          token_supply)
    IN  IF ~bytes.ok THEN bytes
        ELSE IF ~metadata.ok THEN metadata
        ELSE IF ~new_output.ok THEN new_output
        ELSE prepare_transaction(details, <<new_output.value>>,
                                 [custom_inputs |-> <<voting_output.output_id>>])

\* The participations prepare_vote writes, given the voting output.
participations_of_vote(output, events, event_id, answers) ==
    IF IsSome(output.features.metadata)
    THEN LET read == Participations_from_bytes(Unwrap(output.features.metadata))
         IN  IF ~read.ok THEN read
             ELSE LET participations == remove_ended_participation_events(read.value, events)
                  IN  IF IsSome(event_id)
                      THEN Ok(Participations_add_or_replace(participations,
                                 Participation(Unwrap(event_id),
                                               IF IsSome(answers) THEN Unwrap(answers) ELSE <<>>)))
                      ELSE Ok(participations)
    ELSE IF IsSome(event_id)
         THEN Ok(<<Participation(Unwrap(event_id),
                                 IF IsSome(answers) THEN Unwrap(answers) ELSE <<>>)>>)
         ELSE Err([kind |-> "Voting", message |-> "No event to vote for"])

\* prepare_vote without the look at the status of the event.
prepare_vote_after_end(details, events, event_id, answers, token_supply) ==
    LET voting_output == get_voting_output(details)
    IN  IF voting_output = None
        THEN Err([kind |-> "Voting", message |-> "No unspent voting output found"])
        ELSE LET participations ==
                     participations_of_vote(Unwrap(voting_output).output, events,
                                            event_id, answers)
             IN  IF ~participations.ok THEN participations
                 ELSE prepare_voting_transaction(details, Unwrap(voting_output),
                                                 participations.value, token_supply)

\* Account::prepare_vote(event_id, answers), for the status the node reports
\* of each event and its token supply.
prepare_vote(details, events, event_id, answers, token_supply) ==
    IF IsSome(event_id) /\ events[Unwrap(event_id)] = "ended"
    THEN Err([kind |-> "Voting", message |-> "event already ended"])
    ELSE LET voting_output == get_voting_output(details)
         IN  IF voting_output = None
             THEN Err([kind |-> "Voting", message |-> "No unspent voting output found"])
             ELSE LET participations ==
                          participations_of_vote(Unwrap(voting_output).output, events,
                                                 event_id, answers)
                  IN  IF ~participations.ok THEN participations
                      ELSE prepare_voting_transaction(details, Unwrap(voting_output),
                                                      participations.value, token_supply)

\* The participations of prepare_stop_participating without the comparison of
\* the lengths.
participations_of_stop_unchecked(output, events, event_id) ==
    IF IsSome(output.features.metadata)
    THEN LET read == Participations_from_bytes(Unwrap(output.features.metadata))
         IN  IF ~read.ok THEN read
             ELSE Ok(remove_ended_participation_events(
                        Participations_remove(read.value, event_id), events))
    ELSE Err([kind |-> "Voting", message |-> "currently not participating"])

\* The participations prepare_stop_participating writes, given the voting output.
participations_of_stop(output, events, event_id) ==
    IF IsSome(output.features.metadata)
    THEN LET read == Participations_from_bytes(Unwrap(output.features.metadata))
         IN  IF ~read.ok THEN read
             ELSE LET length_before == Len(read.value)
                      participations == Participations_remove(read.value, event_id)
                  IN  IF length_before = Len(participations)
                      THEN Err([kind |-> "Voting", message |-> "currently not participating"])
                      ELSE Ok(remove_ended_participation_events(participations, events))
    ELSE Err([kind |-> "Voting", message |-> "currently not participating"])

\* Account::prepare_stop_participating(event_id)
prepare_stop_participating(details, events, event_id, token_supply) ==
    LET voting_output == get_voting_output(details)
    IN  IF voting_output = None
        THEN Err([kind |-> "Voting", message |-> "No unspent voting output found"])
        ELSE LET participations ==
                     participations_of_stop(Unwrap(voting_output).output, events, event_id)
             IN  IF ~participations.ok THEN participations
                 ELSE prepare_voting_transaction(details, Unwrap(voting_output),
                                                 participations.value, token_supply)

----------------------------------------------------------------------------
(* The state machine of voting: an account with or without a voting        *)
(* output, the events of the node, and one call.                           *)

\* The events, and the status the node may report of each.
EventIds == {1, 2, 3}
EventStatuses == {"holding", "ended"}

\* The answers of a participation.
AnswerLists == {<<>>, <<1>>}

\* The lists of at most n participations, in different events.
ParticipationLists(n) ==
    {ps \in UNION {[1..k -> [event_id : EventIds, answers : AnswerLists]] : k \in 0..n} :
        \A i, j \in 1..Len(ps) : i # j => ps[i].event_id # ps[j].event_id}

\* The metadata a voting output may hold: none, participations, or bytes
\* that are no participations.
VotingMetadata ==
    {None, Some(<<3>>)}
      \union {Some(Participations_to_bytes(ps).value) : ps \in ParticipationLists(MaxParticipations)}

\* The accounts: with or without an output that holds an address only, with or
\* without a voting output, which may be in use by a pending transaction.
VotingAccounts ==
    LET plain == WalletOutputData(1, BasicOutput(10, NoTokens, AddressOnly(OwnAddress),
                                                 None, None), OwnAddress)
        vote(metadata) ==
            WalletOutputData(2, BasicOutput(10, NoTokens, AddressOnly(OwnAddress),
                                            Some(PARTICIPATION_TAG), metadata), OwnAddress)
    IN  {[unspent_outputs |-> outputs, locked_outputs |-> {}, addresses |-> {OwnAddress}] :
            outputs \in {{}, {plain}}}
          \union
        {[unspent_outputs |-> others \union {vote(metadata)},
          locked_outputs |-> locked,
          addresses |-> {OwnAddress}] :
            others \in {{}, {plain}}, metadata \in VotingMetadata, locked \in {{}, {2}}}

InitVoting ==
    /\ account_details \in VotingAccounts
    /\ node \in [time : {10}, events : [EventIds -> EventStatuses]]
    /\ secret_manager = [kind |-> "Mnemonic"]
    /\ prepared_transaction = None
    /\ protocol_parameters = [protocol_version |-> 2, token_supply |-> U64_MAX]
    /\ MilestoneIdle
    /\ ReceiptIdle
    /\ UnpackIdle
    /\ BuilderIdle
    /\ AccountIdle
    /\ WalletIdle
    /\ last = [op |-> "none"]

\* account.prepare_vote(event_id, answers)
PrepareVote ==
    /\ last.op = "none"
    /\ \E event_id \in {None} \union {Some(e) : e \in EventIds},
          answers \in {None} \union {Some(a) : a \in AnswerLists} :
          LET result == prepare_vote(account_details, node.events, event_id, answers,
                                     protocol_parameters.token_supply)
          IN  /\ prepared_transaction' = IF result.ok THEN Some(result.value) ELSE None
              /\ account_details' = lock_inputs(account_details, result)
              /\ last' = [op |-> "prepare_vote", event_id |-> event_id,
                          answers |-> answers, before |-> account_details,
                          result |-> result]
    /\ UNCHANGED <<milestone_vars, protocol_parameters, receipt_vars, unpack_vars,
                   builder_vars, account_vars, secret_manager, node, wallet_vars>>

\* account.prepare_stop_participating(event_id)
PrepareStopParticipating ==
    /\ last.op = "none"
    /\ \E event_id \in EventIds :
          LET result == prepare_stop_participating(account_details, node.events, event_id,
                                                   protocol_parameters.token_supply)
          IN  /\ prepared_transaction' = IF result.ok THEN Some(result.value) ELSE None
              /\ account_details' = lock_inputs(account_details, result)
              /\ last' = [op |-> "prepare_stop_participating", event_id |-> event_id,
                          before |-> account_details, result |-> result]
    /\ UNCHANGED <<milestone_vars, protocol_parameters, receipt_vars, unpack_vars,
                   builder_vars, account_vars, secret_manager, node, wallet_vars>>

NextVoting ==
    \/ PrepareVote
    \/ PrepareStopParticipating

SpecVoting == InitVoting /\ [][NextVoting]_vars

----------------------------------------------------------------------------
(* Properties of voting (under SpecVoting). *)

\* The voting output the account held when the call was made, if any.
VotingOutputBefore ==
    {o \in last.before.unspent_outputs : o.output.features.tag = Some(PARTICIPATION_TAG)}

\* The metadata of that voting output, if any.
MetadataBefore ==
    {o.output.features.metadata[1] : o \in {v \in VotingOutputBefore :
                                               v.output.features.metadata # None}}

\* The participations recorded in the voting output before the call: those
\* its metadata decodes to, none without metadata.
ParticipationsBefore ==
    IF MetadataBefore = {} THEN {}
    ELSE LET read == Participations_from_bytes(CHOOSE m \in MetadataBefore : TRUE)
         IN  IF read.ok THEN Range(read.value) ELSE {}

\* The participations in the output of the prepared transaction.
ParticipationsAfter ==
    Participations_from_bytes(
        Unwrap(Unwrap(prepared_transaction).outputs[1].features.metadata)).value

\* The call has failed and has left things as they were: no transaction is
\* prepared, and the account, its voting output included, is unchanged.
FailedWithoutEffect ==
    /\ ~last.result.ok
    /\ prepared_transaction = None
    /\ account_details = last.before

\* The event of a participation has ended.
Ended(event_id) == node.events[event_id] = "ended"

\* The cases in which prepare_vote is to fail: the event has ended, there is
\* no unspent voting output, or no event is given and the voting output has
\* no metadata.
VoteRefused ==
    \/ last.event_id # None /\ Ended(last.event_id[1])
    \/ VotingOutputBefore = {}
    \/ last.event_id = None /\ MetadataBefore = {}

\* What a prepared vote holds: one entry for the event voted for, with the
\* answers given, every earlier participation in another event that has not
\* ended, and nothing else; its only input is the earlier voting output.
VotePrepared ==
    LET after == ParticipationsAfter
        voted == {i \in 1..Len(after) : last.event_id = Some(after[i].event_id)}
    IN  /\ last.result.ok
        /\ last.event_id # None =>
              /\ Cardinality(voted) = 1
              /\ \A i \in voted :
                    after[i].answers = (IF last.answers = None THEN <<>> ELSE last.answers[1])
        /\ \A p \in ParticipationsBefore :
              (~Ended(p.event_id) /\ last.event_id # Some(p.event_id)) => p \in Range(after)
        /\ \A i \in 1..Len(after) :
              i \notin voted => (after[i] \in ParticipationsBefore /\ ~Ended(after[i].event_id))
        /\ \A o \in VotingOutputBefore :
              Unwrap(prepared_transaction).inputs = <<o.output_id>>

\* C25 (as stated): prepare_vote fails, preparing no transaction and leaving
\* the participations as they are, when the event has ended, when there is no
\* unspent voting output, or when no event is given and the voting output has
\* no metadata; otherwise the new output holds one entry for the event voted
\* for and every earlier participation whose event has not ended, and the
\* transaction takes the earlier voting output as its only input.
C25_AddOrUpdate ==
    last.op = "prepare_vote" =>
        IF VoteRefused THEN FailedWithoutEffect ELSE VotePrepared

\* C25 (amended): prepare_vote fails in the three cases, and whenever it fails
\* it prepares no transaction and leaves the account as it is; whenever it
\* prepares a transaction, the new output holds one entry for the event voted
\* for and every earlier participation whose event has not ended, and the
\* transaction takes the earlier voting output as its only input.
C25_AddOrUpdateWhenPrepared ==
    last.op = "prepare_vote" =>
        /\ VoteRefused => ~last.result.ok
        /\ ~last.result.ok => FailedWithoutEffect
        /\ last.result.ok => VotePrepared

\* C25 witness: a vote takes the place of the earlier vote in the same event,
\* and a participation in an event that has ended is dropped.
C25_Witness ==
    /\ last.op = "prepare_vote"
    /\ last.result.ok
    /\ \E p, q \in ParticipationsBefore :
          /\ last.event_id = Some(p.event_id)
          /\ p \notin Range(ParticipationsAfter)
          /\ Ended(q.event_id)

\* C25 witness: a vote in a running event, with a voting output that holds
\* metadata, fails: the participations do not fit the metadata.
C25_WitnessLength ==
    /\ last.op = "prepare_vote"
    /\ ~VoteRefused
    /\ ~last.result.ok
    /\ last.result.error.kind = "InvalidMetadataFeatureLength"

\* C25 witness: a vote for an event that has ended fails.
C25_WitnessEnded ==
    /\ last.op = "prepare_vote"
    /\ last.event_id # None /\ Ended(last.event_id[1])
    /\ VotingOutputBefore # {}
    /\ ~last.result.ok

\* The metadata of the voting output before the call decodes to participations.
MetadataDecodes ==
    \A m \in MetadataBefore : Participations_from_bytes(m).ok

\* The call has failed with a Voting error.
VotingError ==
    /\ ~last.result.ok
    /\ last.result.error.kind = "Voting"

\* C26: prepare_stop_participating(event_id) fails with a Voting error,
\* preparing no transaction, when the account has no unspent voting output,
\* when the voting output has no metadata, or when its participations do not
\* contain event_id; on success the new participations do not contain
\* event_id and contain every other participation whose event has not ended.
C26_StopParticipating ==
    last.op = "prepare_stop_participating" =>
        /\ (\/ VotingOutputBefore = {}
            \/ MetadataBefore = {}
            \/ MetadataDecodes
                 /\ \A p \in ParticipationsBefore : p.event_id # last.event_id)
              => (VotingError /\ FailedWithoutEffect)
        /\ last.result.ok =>
              /\ \A p \in Range(ParticipationsAfter) : p.event_id # last.event_id
              /\ \A p \in ParticipationsBefore :
                    (p.event_id # last.event_id /\ ~Ended(p.event_id))
                        => p \in Range(ParticipationsAfter)

\* C26 witness: the participation in the event is removed, another one is kept.
C26_Witness ==
    /\ last.op = "prepare_stop_participating"
    /\ last.result.ok
    /\ \E p \in ParticipationsBefore : p.event_id = last.event_id
    /\ ParticipationsAfter # <<>>

\* C26 witness: the account does not take part in the event, and the call fails.
C26_WitnessAbsent ==
    /\ last.op = "prepare_stop_participating"
    /\ VotingError
    /\ ParticipationsBefore # {}

----------------------------------------------------------------------------
(* Minting (sdk/src/wallet/account/operations/transaction/high_level/       *)
(* minting/increase_native_token_supply.rs). A U256 is scaled to 8 bits.   *)

U256_MAX == 2^8 - 1

\* SimpleTokenScheme::circulating_supply()
circulating_supply(token_scheme) ==
    token_scheme.minted_tokens - token_scheme.melted_tokens

\* SimpleTokenScheme::new(minted_tokens, melted_tokens, maximum_supply)
SimpleTokenScheme_new(minted_tokens, melted_tokens, maximum_supply) ==
    IF maximum_supply = 0
          \/ melted_tokens > minted_tokens
          \/ minted_tokens - melted_tokens > maximum_supply
    THEN Err([kind |-> "InvalidFoundryOutputSupply"])
    ELSE Ok([minted_tokens |-> minted_tokens,
             melted_tokens |-> melted_tokens,
             maximum_supply |-> maximum_supply])

\* An alias output of the wallet.
AliasOutput(amount, alias_id, state_index) ==
    [kind |-> AliasOutput_KIND, amount |-> amount, alias_id |-> alias_id,
     state_index |-> state_index]

\* A foundry output of the wallet; the id of its token is the id of the foundry.
FoundryOutput(amount, id, alias_address, token_scheme) ==
    [kind |-> FoundryOutput_KIND, amount |-> amount, id |-> id,
     alias_address |-> alias_address, token_scheme |-> token_scheme]

\* values().find(predicate): the first of the values that matches.
find(values, Matches(_)) ==
    IF \E i \in 1..Len(values) : Matches(values[i])
    THEN Some(values[CHOOSE i \in 1..Len(values) :
                        /\ Matches(values[i])
                        /\ \A j \in 1..(i - 1) : ~Matches(values[j])])
    ELSE None

\* AliasOutputBuilder / FoundryOutputBuilder::finish_output(token_supply)
finish_chain_output(output, token_supply) ==
    IF output.amount = 0 \/ output.amount > token_supply
    THEN Err([kind |-> "InvalidOutputAmount", amount |-> output.amount])
    ELSE Ok(output)

\* Account::prepare_transaction(outputs, options) for the next state of an
\* alias and a foundry: their unspent outputs are the inputs, unless in use.
prepare_transition(details, outputs, spent) ==
    IF \E i \in 1..Len(spent) : spent[i] \in details.locked_outputs
    THEN Err([kind |-> "InsufficientFunds"])
    ELSE Ok([inputs |-> spent, outputs |-> outputs])

\* The outputs and the transaction, once the foundry and the alias are found.
mint_transaction(details, alias_data, foundry_data, mint_amount, token_supply) ==
    LET token_scheme == foundry_data.output.token_scheme
        updated_token_scheme ==
            SimpleTokenScheme_new(token_scheme.minted_tokens + mint_amount,
                                  token_scheme.melted_tokens,
                                  token_scheme.maximum_supply)
        new_alias ==
            finish_chain_output([alias_data.output EXCEPT !.state_index = @ + 1],
                                token_supply)
        new_foundry ==
            finish_chain_output([foundry_data.output EXCEPT
                                    !.token_scheme = updated_token_scheme.value],
                                token_supply)
    IN  IF token_scheme.minted_tokens + mint_amount > U256_MAX
        THEN Err([kind |-> "Panic", message |-> "arithmetic operation overflow"])
        ELSE IF ~updated_token_scheme.ok THEN updated_token_scheme
        ELSE IF ~new_alias.ok THEN new_alias
        ELSE IF ~new_foundry.ok THEN new_foundry
        ELSE prepare_transition(details, <<new_alias.value, new_foundry.value>>,
                                <<alias_data.output_id, foundry_data.output_id>>)

\* prepare_increase_native_token_supply with the comparison of the amount to
\* the maximum supply alone.
prepare_increase_native_token_supply_to_maximum(details, values, token_id, mint_amount, token_supply) ==
    LET IsFoundry(output_data) ==
            /\ output_data.output.kind = FoundryOutput_KIND
            /\ output_data.output.id = token_id
        existing_foundry_output == find(values, IsFoundry)
        foundry_output == Unwrap(existing_foundry_output).output
        IsAlias(output_data) ==
            /\ output_data.output.kind = AliasOutput_KIND
            /\ id_non_null(output_data.output.alias_id, output_data.output_id)
                  = foundry_output.alias_address
        existing_alias_output == find(values, IsAlias)
    IN  IF existing_foundry_output = None
        THEN Err([kind |-> "MintingFailed", message |-> "foundry output is not available"])
        ELSE IF foundry_output.token_scheme.maximum_supply < mint_amount
        THEN Err([kind |-> "MintingFailed", message |-> "would exceed the maximum supply"])
        ELSE IF existing_alias_output = None
        THEN Err([kind |-> "MintingFailed", message |-> "alias output is not available"])
        ELSE mint_transaction(details, Unwrap(existing_alias_output),
                              Unwrap(existing_foundry_output), mint_amount, token_supply)

\* Account::prepare_increase_native_token_supply(token_id, mint_amount, options),
\* for an order of unspent_outputs() and the token supply of the node.
prepare_increase_native_token_supply(details, values, token_id, mint_amount, token_supply) ==
    LET IsFoundry(output_data) ==
            /\ output_data.output.kind = FoundryOutput_KIND
            /\ output_data.output.id = token_id
        existing_foundry_output == find(values, IsFoundry)
        foundry_output == Unwrap(existing_foundry_output).output
        IsAlias(output_data) ==
            /\ output_data.output.kind = AliasOutput_KIND
            /\ id_non_null(output_data.output.alias_id, output_data.output_id)
                  = foundry_output.alias_address
        existing_alias_output == find(values, IsAlias)
    IN  IF existing_foundry_output = None
        THEN Err([kind |-> "MintingFailed", message |-> "foundry output is not available"])
        ELSE IF foundry_output.token_scheme.maximum_supply
                    - circulating_supply(foundry_output.token_scheme) < mint_amount
        THEN Err([kind |-> "MintingFailed", message |-> "would exceed the maximum supply"])
        ELSE IF existing_alias_output = None
        THEN Err([kind |-> "MintingFailed", message |-> "alias output is not available"])
        ELSE mint_transaction(details, Unwrap(existing_alias_output),
                              Unwrap(existing_foundry_output), mint_amount, token_supply)

----------------------------------------------------------------------------
(* The state machine of minting: an account with or without an alias and   *)
(* its foundry, and one call.                                              *)

\* The token schemes a foundry may be in: minted - melted <= maximum supply.
TokenSchemes ==
    {s \in [minted_tokens : {0, 10, 250, U256_MAX},
            melted_tokens : {0, 5, 10},
            maximum_supply : {10, 250, U256_MAX}] :
        /\ s.melted_tokens <= s.minted_tokens
        /\ s.minted_tokens - s.melted_tokens <= s.maximum_supply}

\* The amounts a caller may ask to mint.
MintAmounts == {0, 1, 5, 10, 245, U256_MAX}

\* The id of the alias once it has one, and the ids of two tokens.
MintAliasId == 5
MintTokenId == 7
OtherTokenId == 8

\* The alias outputs an account may hold under output id 1: none, one with its
\* id, one whose id is still null.
MintAliases ==
    {{}, {WalletOutputData(1, AliasOutput(10, MintAliasId, 3), OwnAddress)},
         {WalletOutputData(1, AliasOutput(10, 0, 0), OwnAddress)}}

\* The foundry outputs an account may hold under output id 2: none, or the
\* foundry of the token, controlled by either alias.
MintFoundries ==
    {{}} \union
    {{WalletOutputData(2, FoundryOutput(10, MintTokenId, alias, s), OwnAddress)} :
        alias \in {MintAliasId, ChainId_from_output_id(1)}, s \in TokenSchemes}

\* The accounts: an alias or none, a foundry or none, a basic output, and one
\* of them or none in use by a pending transaction.
MintAccounts ==
    {[unspent_outputs |->
          aliases \union foundries
            \union {WalletOutputData(3, BasicOutput(10, NoTokens, AddressOnly(OwnAddress),
                                                    None, None), OwnAddress)},
      locked_outputs |-> locked,
      addresses |-> {OwnAddress}] :
        aliases \in MintAliases, foundries \in MintFoundries, locked \in {{}, {1}}}

InitMint ==
    /\ account_details \in MintAccounts
    /\ node = [time |-> 10]
    /\ secret_manager = [kind |-> "Mnemonic"]
    /\ prepared_transaction = None
    /\ protocol_parameters = [protocol_version |-> 2, token_supply |-> U64_MAX]
    /\ MilestoneIdle
    /\ ReceiptIdle
    /\ UnpackIdle
    /\ BuilderIdle
    /\ AccountIdle
    /\ WalletIdle
    /\ last = [op |-> "none"]

\* account.prepare_increase_native_token_supply(token_id, mint_amount, None)
PrepareIncreaseNativeTokenSupply ==
    /\ last.op = "none"
    /\ \E token_id \in {MintTokenId, OtherTokenId}, mint_amount \in MintAmounts,
          values \in HashMap_values(account_details.unspent_outputs) :
          LET result == prepare_increase_native_token_supply(account_details, values,
                            token_id, mint_amount, protocol_parameters.token_supply)
          IN  /\ prepared_transaction' = IF result.ok THEN Some(result.value) ELSE None
              /\ account_details' = lock_inputs(account_details, result)
              /\ last' = [op |-> "prepare_increase_native_token_supply",
                          token_id |-> token_id, mint_amount |-> mint_amount,
                          before |-> account_details, result |-> result]
    /\ UNCHANGED <<milestone_vars, protocol_parameters, receipt_vars, unpack_vars,
                   builder_vars, account_vars, secret_manager, node, wallet_vars>>

NextMint ==
    \/ PrepareIncreaseNativeTokenSupply

SpecMint == InitMint /\ [][NextMint]_vars

----------------------------------------------------------------------------
(* Properties of minting (under SpecMint). *)

\* The unspent foundry outputs of the token asked for, before the call.
FoundriesOfToken ==
    {o \in last.before.unspent_outputs :
        o.output.kind = FoundryOutput_KIND /\ o.output.id = last.token_id}

\* The unspent alias outputs that control foundry f, before the call.
AliasesOf(f) ==
    {o \in last.before.unspent_outputs :
        /\ o.output.kind = AliasOutput_KIND
        /\ f.output.alias_address
              = (IF o.output.alias_id = 0 THEN ChainId_from_output_id(o.output_id)
                 ELSE o.output.alias_id)}

\* The call has failed with MintingFailed, and nothing is prepared.
MintingFailed ==
    /\ ~last.result.ok
    /\ last.result.error.kind = "MintingFailed"
    /\ prepared_transaction = None
    /\ account_details = last.before

\* C27: prepare_increase_native_token_supply(token_id, mint_amount) fails with
\* MintingFailed when the foundry of token_id is not among the unspent
\* outputs, when mint_amount is more than maximum_supply less the circulating
\* supply, or when the alias that controls the foundry is not unspent; on
\* success the outputs are the alias with its state index raised by one and
\* the foundry with mint_amount more minted tokens, melted tokens and maximum
\* supply as before, so that the circulating supply is within the maximum.
C27_IncreaseSupply ==
    last.op = "prepare_increase_native_token_supply" =>
        /\ FoundriesOfToken = {} => MintingFailed
        /\ \A f \in FoundriesOfToken :
              /\ last.mint_amount > f.output.token_scheme.maximum_supply
                    - (f.output.token_scheme.minted_tokens
                         - f.output.token_scheme.melted_tokens)
                  => MintingFailed
              /\ AliasesOf(f) = {} => MintingFailed
              /\ last.result.ok =>
                    \E a \in AliasesOf(f) :
                       LET outputs == Unwrap(prepared_transaction).outputs
                           before == f.output.token_scheme
                           after == outputs[2].token_scheme
                       IN  /\ Len(outputs) = 2
                           /\ outputs[1] = [a.output EXCEPT
                                               !.state_index = a.output.state_index + 1]
                           /\ outputs[2] = [f.output EXCEPT !.token_scheme = after]
                           /\ after.minted_tokens = before.minted_tokens + last.mint_amount
                           /\ after.melted_tokens = before.melted_tokens
                           /\ after.maximum_supply = before.maximum_supply
                           /\ after.minted_tokens - after.melted_tokens
                                 <= after.maximum_supply
                           /\ after.minted_tokens <= U256_MAX

\* C27 witness: tokens are minted up to the maximum supply, some of the
\* earlier ones melted.
C27_Witness ==
    /\ last.op = "prepare_increase_native_token_supply"
    /\ last.result.ok
    /\ last.mint_amount > 0
    /\ \E f \in FoundriesOfToken :
          /\ f.output.token_scheme.melted_tokens > 0
          /\ last.mint_amount = f.output.token_scheme.maximum_supply
                - (f.output.token_scheme.minted_tokens - f.output.token_scheme.melted_tokens)

\* C27 witness: one token more than the supply has room for is refused.
C27_WitnessExceeds ==
    /\ last.op = "prepare_increase_native_token_supply"
    /\ MintingFailed
    /\ \E f \in FoundriesOfToken :
          /\ AliasesOf(f) # {}
          /\ last.mint_amount <= f.output.token_scheme.maximum_supply
          /\ last.mint_amount > f.output.token_scheme.maximum_supply
                - (f.output.token_scheme.minted_tokens - f.output.token_scheme.melted_tokens)

\* C27 witness: the foundry is unspent and has room, its alias is not unspent.
C27_WitnessAlias ==
    /\ last.op = "prepare_increase_native_token_supply"
    /\ MintingFailed
    /\ last.result.error.message = "alias output is not available"

----------------------------------------------------------------------------
(* Backup and restore of the wallet                                        *)
(* (sdk/src/wallet/wallet/operations/stronghold_backup/mod.rs). The        *)
(* snapshot at backup_path is the data read from it, each part optional.   *)

\* An account of the wallet, with the hrp of its first public address.
WalletAccount(index, hrp) == [index |-> index, hrp |-> hrp]

\* store_data_to_stronghold: the client options, the coin type, the secret
\* manager and the accounts of the wallet, as a backup holds them.
store_data_to_stronghold(w) ==
    [client_options |-> Some(w.client_options),
     coin_type |-> Some(w.coin_type),
     secret_manager |-> Some(w.secret_manager),
     accounts |-> Some(w.accounts)]

\* read_data_from_stronghold_snapshot, with the password given.
read_data_from_stronghold_snapshot(snapshot_data, stronghold_password) ==
    IF stronghold_password = "right" THEN Ok(snapshot_data)
    ELSE Err([kind |-> "Stronghold"])

\* SecretManager::try_from(&SecretManagerDto)
SecretManager_try_from(secret_manager_dto) ==
    IF secret_manager_dto = "invalid" THEN Err([kind |-> "Client"])
    ELSE Ok(secret_manager_dto)

\* ignore_backup_values that asks for any flag, not for Some(true).
ignore_backup_values_of_any_flag(w, read_coin_type, ignore_if_coin_type_mismatch) ==
    IF IsSome(ignore_if_coin_type_mismatch)
    THEN IF IsSome(read_coin_type) THEN w.coin_type # Unwrap(read_coin_type) ELSE TRUE
    ELSE FALSE

\* ignore_backup_values: with ignore_if_coin_type_mismatch == Some(true), a
\* backup without the coin type of the wallet is ignored.
ignore_backup_values(w, read_coin_type, ignore_if_coin_type_mismatch) ==
    IF IsSome(ignore_if_coin_type_mismatch)
    THEN IF Unwrap(ignore_if_coin_type_mismatch)
         THEN IF IsSome(read_coin_type) THEN w.coin_type # Unwrap(read_coin_type) ELSE TRUE
         ELSE FALSE
    ELSE FALSE

\* restore_accounts: with ignore_if_bech32_hrp_mismatch == Some(hrp), the
\* accounts are restored only if the first one has that hrp.
restore_accounts(read_accounts, ignore_if_bech32_hrp_mismatch) ==
    IF IsSome(ignore_if_bech32_hrp_mismatch)
    THEN IF Len(read_accounts) > 0
         THEN read_accounts[1].hrp = Unwrap(ignore_if_bech32_hrp_mismatch)
         ELSE TRUE
    ELSE TRUE

\* The wallet once the coin type of the backup is stored.
with_coin_type(w, read, ignore) ==
    IF ~ignore /\ IsSome(read.coin_type)
    THEN [w EXCEPT !.coin_type = Unwrap(read.coin_type)]
    ELSE w

\* The wallet once the client options of the backup are set.
with_client_options(w, read, ignore_if_coin_type_mismatch) ==
    IF ignore_if_coin_type_mismatch = None /\ IsSome(read.client_options)
    THEN [w EXCEPT !.client_options = Unwrap(read.client_options)]
    ELSE w

\* The wallet once the accounts of the backup are restored.
with_accounts(w, read, ignore, ignore_if_bech32_hrp_mismatch) ==
    IF ~ignore /\ IsSome(read.accounts)
          /\ restore_accounts(Unwrap(read.accounts), ignore_if_bech32_hrp_mismatch)
    THEN [w EXCEPT !.accounts = Unwrap(read.accounts)]
    ELSE w

\* restore_backup that looks at the backup before it looks at the accounts.
restore_backup_over_accounts(w, snapshot_file, stronghold_password, ignore_if_coin_type_mismatch, ignore_if_bech32_hrp_mismatch) ==
    IF snapshot_file = None
    THEN [result |-> Err([kind |-> "Backup", message |-> "backup path doesn't exist"]),
          wallet |-> w]
    ELSE LET read == read_data_from_stronghold_snapshot(Unwrap(snapshot_file),
                                                        stronghold_password)
             ignore == ignore_backup_values(w, read.value.coin_type,
                                            ignore_if_coin_type_mismatch)
             coin_typed == with_coin_type(w, read.value, ignore)
         IN  IF ~read.ok THEN [result |-> read, wallet |-> w]
             ELSE IF Len(w.accounts) # 0
             THEN [result |-> Err([kind |-> "Backup",
                       message |-> "can't restore backup when there are already accounts"]),
                   wallet |-> coin_typed]
             ELSE [result |-> Ok(<<>>),
                   wallet |-> with_accounts(coin_typed, read.value, ignore,
                                            ignore_if_bech32_hrp_mismatch)]

\* Wallet::restore_backup(backup_path, stronghold_password,
\* ignore_if_coin_type_mismatch, ignore_if_bech32_hrp_mismatch): the result,
\* and the wallet as the call leaves it.
restore_backup(w, snapshot_file, stronghold_password, ignore_if_coin_type_mismatch, ignore_if_bech32_hrp_mismatch) ==
    IF snapshot_file = None
    THEN [result |-> Err([kind |-> "Backup", message |-> "backup path doesn't exist"]),
          wallet |-> w]
    ELSE IF Len(w.accounts) # 0
    THEN [result |-> Err([kind |-> "Backup",
              message |-> "can't restore backup when there are already accounts"]),
          wallet |-> w]
    ELSE LET read == read_data_from_stronghold_snapshot(Unwrap(snapshot_file),
                                                        stronghold_password)
             ignore == ignore_backup_values(w, read.value.coin_type,
                                            ignore_if_coin_type_mismatch)
             coin_typed == with_coin_type(w, read.value, ignore)
             restored_secret_manager ==
                 SecretManager_try_from(Unwrap(read.value.secret_manager))
             managed ==
                 IF IsSome(read.value.secret_manager)
                 THEN [coin_typed EXCEPT !.secret_manager = restored_secret_manager.value]
                 ELSE coin_typed
         IN  IF ~read.ok THEN [result |-> read, wallet |-> w]
             ELSE IF IsSome(read.value.secret_manager) /\ ~restored_secret_manager.ok
             THEN [result |-> Err([kind |-> "Backup", message |-> "invalid secret_manager"]),
                   wallet |-> coin_typed]
             ELSE [result |-> Ok(<<>>),
                   wallet |-> with_accounts(
                                  with_client_options(managed, read.value,
                                                      ignore_if_coin_type_mismatch),
                                  read.value, ignore, ignore_if_bech32_hrp_mismatch)]

----------------------------------------------------------------------------
(* The state machine of backup and restore: a wallet, a backup path, and   *)
(* calls of backup and of restore_backup one after the other.              *)

\* The coin types: of IOTA and of Shimmer.
CoinTypes == {4218, 4219}

\* The hrps of the addresses.
Hrps == {"rms", "smr"}

\* The lists of accounts of a wallet or of a backup.
AccountLists ==
    {<<>>, <<WalletAccount(0, "rms")>>, <<WalletAccount(0, "smr"), WalletAccount(1, "smr")>>}

\* The wallets.
Wallets ==
    [accounts : {<<>>, <<WalletAccount(0, "rms")>>},
     coin_type : CoinTypes,
     secret_manager : {"mnemonic of the wallet"},
     client_options : {"nodes of the wallet"}]

\* What is at the backup path: no file, or a snapshot with its data.
Snapshots ==
    {None} \union
    {Some(d) : d \in [client_options : {None, Some("nodes of the backup")},
                      coin_type : {None} \union {Some(c) : c \in CoinTypes},
                      secret_manager : {None, Some("mnemonic of the backup"), Some("invalid")},
                      accounts : {None} \union {Some(a) : a \in AccountLists}]}

InitBackup ==
    /\ wallet \in Wallets
    /\ snapshot \in Snapshots
    /\ locks = <<>>
    /\ tasks = <<>>
    /\ protocol_parameters = [protocol_version |-> 2, token_supply |-> U64_MAX]
    /\ MilestoneIdle
    /\ ReceiptIdle
    /\ UnpackIdle
    /\ BuilderIdle
    /\ AccountIdle
    /\ OperationIdle
    /\ last = [op |-> "none"]

\* wallet.backup(backup_path, stronghold_password)
Backup ==
    /\ last.op = "none"
    /\ snapshot' = Some(store_data_to_stronghold(wallet))
    /\ last' = [op |-> "backup", result |-> Ok(<<>>)]
    /\ UNCHANGED <<milestone_vars, protocol_parameters, receipt_vars, unpack_vars,
                   builder_vars, account_vars, operation_vars, wallet, locks, tasks>>

\* wallet.restore_backup(backup_path, stronghold_password,
\* ignore_if_coin_type_mismatch, ignore_if_bech32_hrp_mismatch)
RestoreBackup ==
    /\ last.op \in {"none", "backup"}
    /\ \E stronghold_password \in {"right", "wrong"},
          ignore_if_coin_type_mismatch \in {None, Some(TRUE), Some(FALSE)},
          ignore_if_bech32_hrp_mismatch \in {None} \union {Some(h) : h \in Hrps} :
          LET restored == restore_backup(wallet, snapshot, stronghold_password,
                              ignore_if_coin_type_mismatch, ignore_if_bech32_hrp_mismatch)
          IN  /\ wallet' = restored.wallet
              /\ last' = [op |-> "restore_backup",
                          ignore_if_coin_type_mismatch |-> ignore_if_coin_type_mismatch,
                          ignore_if_bech32_hrp_mismatch |-> ignore_if_bech32_hrp_mismatch,
                          before |-> wallet,
                          result |-> restored.result]
    /\ UNCHANGED <<milestone_vars, protocol_parameters, receipt_vars, unpack_vars,
                   builder_vars, account_vars, operation_vars, snapshot, locks, tasks>>

NextBackup ==
    \/ Backup
    \/ RestoreBackup

SpecBackup == InitBackup /\ [][NextBackup]_vars

----------------------------------------------------------------------------
(* Properties of restore_backup (under SpecBackup). *)

\* restore_backup has returned.
Restored == last.op = "restore_backup"

\* C23: restore_backup fails with a Backup error, and leaves the accounts, the
\* coin type, the secret manager and the client options of the wallet as they
\* were, when the backup path is not a file or when the wallet has an account
\* already: accounts are never overwritten.
C23_RestoreRefused ==
    Restored =>
        /\ (snapshot = None \/ Len(last.before.accounts) >= 1) =>
              /\ ~last.result.ok
              /\ last.result.error.kind = "Backup"
              /\ wallet = last.before
        /\ Len(last.before.accounts) >= 1 => wallet.accounts = last.before.accounts

\* C23 witness: a backup of another coin type, with other accounts, is refused
\* by a wallet that has an account.
C23_Witness ==
    /\ Restored
    /\ Len(last.before.accounts) >= 1
    /\ snapshot # None
    /\ snapshot[1].coin_type \notin {None, Some(last.before.coin_type)}
    /\ snapshot[1].accounts \notin {None, Some(last.before.accounts)}
    /\ ~last.result.ok

\* C23 witness: there is no file at the backup path.
C23_WitnessNoFile ==
    /\ Restored
    /\ snapshot = None
    /\ last.before.accounts = <<>>
    /\ ~last.result.ok

\* restore_backup has returned Ok: the backup was read and put in place.
RestoreDone == Restored /\ last.result.ok

\* The backup holds a coin type, and it is not the one of the wallet.
CoinTypeDiffers ==
    /\ snapshot[1].coin_type # None
    /\ snapshot[1].coin_type[1] # last.before.coin_type

\* The first account of the backup has another hrp than the one asked for.
HrpDiffers ==
    /\ last.ignore_if_bech32_hrp_mismatch # None
    /\ snapshot[1].accounts # None
    /\ snapshot[1].accounts[1] # <<>>
    /\ snapshot[1].accounts[1][1].hrp # last.ignore_if_bech32_hrp_mismatch[1]

\* The coin type and the accounts that the backup holds are those of the wallet.
BackupInPlace ==
    /\ snapshot[1].coin_type # None => wallet.coin_type = snapshot[1].coin_type[1]
    /\ snapshot[1].accounts # None => wallet.accounts = snapshot[1].accounts[1]

\* The coin type and the accounts of the wallet are as they were.
CoinTypeAndAccountsKept ==
    /\ wallet.coin_type = last.before.coin_type
    /\ wallet.accounts = last.before.accounts

\* C24 (as stated): the client options are restored only when
\* ignore_if_coin_type_mismatch is None; with Some(true) and a coin type of
\* the backup that differs from the wallet's, neither the coin type nor the
\* accounts change; with ignore_if_bech32_hrp_mismatch Some(h) and another hrp
\* in the first address of the first account of the backup, no account is
\* restored; in every other case the coin type and the accounts of the backup
\* replace the wallet's.
C24_MismatchFlags ==
    RestoreDone =>
        /\ wallet.client_options # last.before.client_options
              => last.ignore_if_coin_type_mismatch = None
        /\ IF last.ignore_if_coin_type_mismatch = Some(TRUE) /\ CoinTypeDiffers
           THEN CoinTypeAndAccountsKept
           ELSE IF HrpDiffers
                THEN wallet.accounts = last.before.accounts
                ELSE BackupInPlace

\* C24 (amended): as stated, but with Some(true) the coin type and the
\* accounts are also kept when the backup holds no coin type; in every other
\* case of a restore that succeeds, the coin type and the accounts that the
\* backup holds replace the wallet's (with another hrp, the coin type alone).
C24_MismatchFlagsOrNoCoinType ==
    RestoreDone =>
        /\ wallet.client_options # last.before.client_options
              => last.ignore_if_coin_type_mismatch = None
        /\ (last.ignore_if_coin_type_mismatch = None /\ snapshot[1].client_options # None)
              => wallet.client_options = snapshot[1].client_options[1]
        /\ IF last.ignore_if_coin_type_mismatch = Some(TRUE)
                /\ (CoinTypeDiffers \/ snapshot[1].coin_type = None)
           THEN CoinTypeAndAccountsKept
           ELSE IF HrpDiffers
                THEN /\ wallet.accounts = last.before.accounts
                     /\ snapshot[1].coin_type # None
                           => wallet.coin_type = snapshot[1].coin_type[1]
                ELSE BackupInPlace

\* C24 witness: with Some(true) a backup of another coin type leaves the coin
\* type and the accounts, and replaces the secret manager.
C24_Witness ==
    /\ RestoreDone
    /\ last.ignore_if_coin_type_mismatch = Some(TRUE)
    /\ CoinTypeDiffers
    /\ snapshot[1].accounts \notin {None, Some(<<>>)}
    /\ wallet.accounts = <<>>
    /\ wallet.secret_manager # last.before.secret_manager

\* C24 witness: with Some(true) a backup without a coin type is not restored.
C24_WitnessNoCoinType ==
    /\ RestoreDone
    /\ last.ignore_if_coin_type_mismatch = Some(TRUE)
    /\ snapshot[1].coin_type = None
    /\ snapshot[1].accounts \notin {None, Some(<<>>)}
    /\ wallet.accounts = <<>>

\* C24 witness: with another hrp the coin type is replaced, the accounts are not.
C24_WitnessHrp ==
    /\ RestoreDone
    /\ HrpDiffers
    /\ wallet.coin_type # last.before.coin_type
    /\ wallet.accounts = <<>>

\* C24 witness: with Some(false) a backup of another coin type is restored,
\* but for the client options.
C24_WitnessRestored ==
    /\ RestoreDone
    /\ last.ignore_if_coin_type_mismatch = Some(FALSE)
    /\ CoinTypeDiffers
    /\ wallet.accounts # <<>>
    /\ snapshot[1].client_options # None
    /\ wallet.client_options = last.before.client_options

----------------------------------------------------------------------------
(* The locks of the wallet: accounts and secret_manager are RwLocks        *)
(* (tokio::sync::RwLock): a call asks for the lock and waits in the queue  *)
(* of the lock; the lock is given in the order of the queue, to a reader   *)
(* when no writer holds it, to a writer when nobody holds it.              *)

\* RwLock::new
RwLock_new == [readers |-> {}, writer |-> {}, queue |-> <<>>]

\* lock.read() or lock.write(), not yet given: the task waits in the queue.
RwLock_request(lock, t, mode) == [lock EXCEPT !.queue = Append(@, <<t, mode>>)]

\* The lock can be given to the task: it is first in the queue and nobody
\* holds the lock against it.
RwLock_ready(lock, t) ==
    /\ lock.queue # <<>>
    /\ Head(lock.queue)[1] = t
    /\ lock.writer = {}
    /\ Head(lock.queue)[2] = "write" => lock.readers = {}

\* The guard is given to the task.
RwLock_acquire(lock, t) ==
    IF Head(lock.queue)[2] = "write"
    THEN [lock EXCEPT !.writer = {t}, !.queue = Tail(@)]
    ELSE [lock EXCEPT !.readers = @ \union {t}, !.queue = Tail(@)]

\* The guard of the task is dropped.
RwLock_drop(lock, t) == [lock EXCEPT !.readers = @ \ {t}, !.writer = @ \ {t}]

\* The task holds a guard of the lock.
Holds_lock(lock, t) == t \in lock.readers \union lock.writer

\* The task has returned with the result.
returned(task, result) == [task EXCEPT !.pc = "returned", !.result = result]

----------------------------------------------------------------------------
(* The state machine of concurrent calls on one wallet: restore_backup,    *)
(* backup and generate_address, each a task that runs from await to await. *)

\* The tasks.
TaskIds == {1, 2, 3}

\* The calls made on the wallet.
Calls ==
    {[op |-> "restore_backup", ignore_if_coin_type_mismatch |-> i,
      ignore_backup_values |-> FALSE, pc |-> "called", result |-> None] :
        i \in {None, Some(TRUE)}}
    \union {[op |-> "backup", pc |-> "called", result |-> None]}
    \union {[op |-> "generate_address", ledger_nano_prompt |-> p, pc |-> "called",
             result |-> None] : p \in BOOLEAN}

\* The wallets of the calls: with or without an account, with a mnemonic or
\* a ledger as the secret manager.
LockedWallets ==
    [accounts : {<<>>, <<WalletAccount(0, "rms")>>},
     coin_type : {4218},
     secret_manager : {"mnemonic of the wallet", "ledger nano"},
     client_options : {"nodes of the wallet"}]

\* What is at the backup path of the calls.
LockedSnapshots ==
    {None,
     Some([client_options |-> Some("nodes of the backup"),
           coin_type |-> Some(4219),
           secret_manager |-> Some("mnemonic of the backup"),
           accounts |-> Some(<<WalletAccount(0, "smr"), WalletAccount(1, "smr")>>)]),
     Some([client_options |-> None,
           coin_type |-> Some(4218),
           secret_manager |-> Some("invalid"),
           accounts |-> None])}

InitLocks ==
    /\ wallet \in LockedWallets
    /\ snapshot \in LockedSnapshots
    /\ locks = [accounts |-> RwLock_new, secret_manager |-> RwLock_new]
    /\ tasks \in [TaskIds -> Calls]
    /\ protocol_parameters = [protocol_version |-> 2, token_supply |-> U64_MAX]
    /\ MilestoneIdle
    /\ ReceiptIdle
    /\ UnpackIdle
    /\ BuilderIdle
    /\ AccountIdle
    /\ OperationIdle
    /\ last = [op |-> "none"]

\* What no call on the wallet changes.
LocksUnchanged ==
    UNCHANGED <<milestone_vars, protocol_parameters, receipt_vars, unpack_vars,
                builder_vars, account_vars, operation_vars, last>>

\* restore_backup, to self.accounts.write(): without a file at the path the
\* call returns, with one it asks for the accounts.
RestoreBackupCall(t) ==
    /\ tasks[t].op = "restore_backup"
    /\ tasks[t].pc = "called"
    /\ IF snapshot = None
       THEN /\ tasks' = [tasks EXCEPT ![t] = returned(@,
                            Err([kind |-> "Backup", message |-> "backup path doesn't exist"]))]
            /\ UNCHANGED locks
       ELSE /\ tasks' = [tasks EXCEPT ![t].pc = "accounts.write"]
            /\ locks' = [locks EXCEPT !.accounts = RwLock_request(@, t, "write")]
    /\ UNCHANGED <<wallet, snapshot>>
    /\ LocksUnchanged

\* restore_backup, with the accounts, to self.secret_manager.write(): with
\* an account in the wallet the call returns and the guard is dropped.
RestoreBackupAccounts(t) ==
    /\ tasks[t].op = "restore_backup"
    /\ tasks[t].pc = "accounts.write"
    /\ RwLock_ready(locks.accounts, t)
    /\ IF Len(wallet.accounts) # 0
       THEN /\ tasks' = [tasks EXCEPT ![t] = returned(@,
                            Err([kind |-> "Backup",
                                 message |-> "can't restore backup when there are already accounts"]))]
            /\ locks' = [locks EXCEPT
                            !.accounts = RwLock_drop(RwLock_acquire(@, t), t)]
       ELSE /\ tasks' = [tasks EXCEPT ![t].pc = "secret_manager.write"]
            /\ locks' = [locks EXCEPT
                            !.accounts = RwLock_acquire(@, t),
                            !.secret_manager = RwLock_request(@, t, "write")]
    /\ UNCHANGED <<wallet, snapshot>>
    /\ LocksUnchanged

\* restore_backup, with the secret manager, to drop(secret_manager): the
\* backup is read, the coin type and the secret manager are replaced; then
\* set_client_options asks for the secret manager again, to save the wallet.
RestoreBackupSecretManager(t) ==
    /\ tasks[t].op = "restore_backup"
    /\ tasks[t].pc = "secret_manager.write"
    /\ RwLock_ready(locks.secret_manager, t)
    /\ LET restored == restore_backup(wallet, snapshot, "right",
                                      tasks[t].ignore_if_coin_type_mismatch, None)
           ignore == ignore_backup_values(wallet, Unwrap(snapshot).coin_type,
                                          tasks[t].ignore_if_coin_type_mismatch)
           set_client_options ==
               /\ tasks[t].ignore_if_coin_type_mismatch = None
               /\ IsSome(Unwrap(snapshot).client_options)
       IN  /\ wallet' = [restored.wallet EXCEPT !.accounts = wallet.accounts,
                                                !.client_options = wallet.client_options]
           /\ IF ~restored.result.ok
              THEN /\ tasks' = [tasks EXCEPT ![t] = returned(@, restored.result)]
                   /\ locks' = [locks EXCEPT
                          !.secret_manager = RwLock_drop(RwLock_acquire(@, t), t),
                          !.accounts = RwLock_drop(@, t)]
              ELSE IF set_client_options
              THEN /\ tasks' = [tasks EXCEPT ![t].pc = "set_client_options",
                                             ![t].ignore_backup_values = ignore]
                   /\ locks' = [locks EXCEPT
                          !.secret_manager =
                              RwLock_request(RwLock_drop(RwLock_acquire(@, t), t), t, "read")]
              ELSE /\ tasks' = [tasks EXCEPT ![t].pc = "accounts",
                                             ![t].ignore_backup_values = ignore]
                   /\ locks' = [locks EXCEPT
                          !.secret_manager = RwLock_drop(RwLock_acquire(@, t), t)]
    /\ UNCHANGED snapshot
    /\ LocksUnchanged

\* restore_backup, in set_client_options: the client options are set and
\* the wallet is saved with its secret manager.
RestoreBackupSetClientOptions(t) ==
    /\ tasks[t].op = "restore_backup"
    /\ tasks[t].pc = "set_client_options"
    /\ RwLock_ready(locks.secret_manager, t)
    /\ wallet' = with_client_options(wallet, Unwrap(snapshot),
                                     tasks[t].ignore_if_coin_type_mismatch)
    /\ tasks' = [tasks EXCEPT ![t].pc = "accounts"]
    /\ locks' = [locks EXCEPT !.secret_manager = RwLock_drop(RwLock_acquire(@, t), t)]
    /\ UNCHANGED snapshot
    /\ LocksUnchanged

\* restore_backup, to its end: the accounts are restored and the guard of
\* the accounts is dropped.
RestoreBackupReturn(t) ==
    /\ tasks[t].op = "restore_backup"
    /\ tasks[t].pc = "accounts"
    /\ wallet' = with_accounts(wallet, Unwrap(snapshot), tasks[t].ignore_backup_values,
                                None)
    /\ tasks' = [tasks EXCEPT ![t] = returned(@, Ok(<<>>))]
    /\ locks' = [locks EXCEPT !.accounts = RwLock_drop(@, t)]
    /\ UNCHANGED snapshot
    /\ LocksUnchanged

\* backup, to self.secret_manager.read()
BackupCall(t) ==
    /\ tasks[t].op = "backup"
    /\ tasks[t].pc = "called"
    /\ tasks' = [tasks EXCEPT ![t].pc = "secret_manager.read"]
    /\ locks' = [locks EXCEPT !.secret_manager = RwLock_request(@, t, "read")]
    /\ UNCHANGED <<wallet, snapshot>>
    /\ LocksUnchanged

\* backup, with the secret manager, to store_data_to_stronghold, which
\* reads the accounts of the wallet.
BackupSecretManager(t) ==
    /\ tasks[t].op = "backup"
    /\ tasks[t].pc = "secret_manager.read"
    /\ RwLock_ready(locks.secret_manager, t)
    /\ tasks' = [tasks EXCEPT ![t].pc = "store_data_to_stronghold"]
    /\ locks' = [locks EXCEPT !.secret_manager = RwLock_acquire(@, t),
                             !.accounts = RwLock_request(@, t, "read")]
    /\ UNCHANGED <<wallet, snapshot>>
    /\ LocksUnchanged

\* backup, with the accounts, to its end: the snapshot is written and both
\* guards are dropped.
BackupStore(t) ==
    /\ tasks[t].op = "backup"
    /\ tasks[t].pc = "store_data_to_stronghold"
    /\ RwLock_ready(locks.accounts, t)
    /\ snapshot' = Some(store_data_to_stronghold(wallet))
    /\ tasks' = [tasks EXCEPT ![t] = returned(@, Ok(<<>>))]
    /\ locks' = [locks EXCEPT !.accounts = RwLock_drop(RwLock_acquire(@, t), t),
                             !.secret_manager = RwLock_drop(@, t)]
    /\ UNCHANGED wallet
    /\ LocksUnchanged

\* generate_address, to self.secret_manager.read()
GenerateAddressCall(t) ==
    /\ tasks[t].op = "generate_address"
    /\ tasks[t].pc = "called"
    /\ tasks' = [tasks EXCEPT ![t].pc = "secret_manager.read"]
    /\ locks' = [locks EXCEPT !.secret_manager = RwLock_request(@, t, "read")]
    /\ UNCHANGED <<wallet, snapshot>>
    /\ LocksUnchanged

\* generate_address, with the secret manager: a ledger asked for the prompt
\* goes on to get_bech32_hrp, which reads the accounts; any other secret
\* manager generates the address and the call returns.
GenerateAddressSecretManager(t) ==
    /\ tasks[t].op = "generate_address"
    /\ tasks[t].pc = "secret_manager.read"
    /\ RwLock_ready(locks.secret_manager, t)
    /\ IF wallet.secret_manager = "ledger nano" /\ tasks[t].ledger_nano_prompt
       THEN /\ tasks' = [tasks EXCEPT ![t].pc = "get_bech32_hrp"]
            /\ locks' = [locks EXCEPT !.secret_manager = RwLock_acquire(@, t),
                                     !.accounts = RwLock_request(@, t, "read")]
       ELSE /\ tasks' = [tasks EXCEPT ![t] = returned(@, Ok(wallet.coin_type))]
            /\ locks' = [locks EXCEPT
                            !.secret_manager = RwLock_drop(RwLock_acquire(@, t), t)]
    /\ UNCHANGED <<wallet, snapshot>>
    /\ LocksUnchanged

\* generate_address, in get_bech32_hrp with the accounts, to its end: the
\* hrp of the first account, or of the client; both guards are dropped.
GenerateAddressGetBech32Hrp(t) ==
    /\ tasks[t].op = "generate_address"
    /\ tasks[t].pc = "get_bech32_hrp"
    /\ RwLock_ready(locks.accounts, t)
    /\ tasks' = [tasks EXCEPT ![t] = returned(@,
                    Ok(IF Len(wallet.accounts) > 0 THEN wallet.accounts[1].hrp
                       ELSE "hrp of the client"))]
    /\ locks' = [locks EXCEPT !.accounts = RwLock_drop(RwLock_acquire(@, t), t),
                             !.secret_manager = RwLock_drop(@, t)]
    /\ UNCHANGED <<wallet, snapshot>>
    /\ LocksUnchanged

\* The next step of a task.
Poll(t) ==
    \/ RestoreBackupCall(t)
    \/ RestoreBackupAccounts(t)
    \/ RestoreBackupSecretManager(t)
    \/ RestoreBackupSetClientOptions(t)
    \/ RestoreBackupReturn(t)
    \/ BackupCall(t)
    \/ BackupSecretManager(t)
    \/ BackupStore(t)
    \/ GenerateAddressCall(t)
    \/ GenerateAddressSecretManager(t)
    \/ GenerateAddressGetBech32Hrp(t)

NextLocks == \E t \in TaskIds : Poll(t)

\* The runtime polls every task that can go on.
SpecLocks == InitLocks /\ [][NextLocks]_vars /\ \A t \in TaskIds : WF_vars(Poll(t))

----------------------------------------------------------------------------
(* Properties of the concurrent calls (under SpecLocks). *)

\* The call of the task has returned.
Returned(t) == tasks[t].pc = "returned"

\* C29: whatever the interleaving of concurrent calls of restore_backup, of
\* backup and of generate_address on one wallet, every call eventually
\* returns: the calls that take both the lock of the accounts and the lock
\* of the secret manager cannot deadlock each other.
C29_EveryCallReturns == \A t \in TaskIds : <>Returned(t)

\* The deadlock of C29: a restore_backup holds the accounts and waits for
\* the secret manager, which a backup or a generate_address holds while it
\* waits for the accounts.
C29_Deadlock ==
    \E r, s \in TaskIds :
        /\ tasks[r].op = "restore_backup"
        /\ tasks[s].op \in {"backup", "generate_address"}
        /\ locks.accounts.writer = {r}
        /\ s \in locks.secret_manager.readers
        /\ tasks[r].pc \in {"secret_manager.write", "set_client_options"}
        /\ tasks[s].pc \in {"store_data_to_stronghold", "get_bech32_hrp"}

\* No call is left waiting for ever: some task can go on, or all have
\* returned.
C29_NoCallStuck == (\A t \in TaskIds : Returned(t)) \/ ENABLED NextLocks

====
